---- MODULE Spec2Model ----
(***************************************************************************)
(* A model of the authorization and resource kernel of hellomouse-apps-api *)
(* (boards, board permissions, pins, pin history, playlists and playlist   *)
(* permissions), translated from the request handlers in src/board/app.rs, *)
(* src/music/app.rs and the SQL of the two postgres_handler.rs files.      *)
(*                                                                         *)
(* A database table is a set of rows (records); a HashMap<String, Perm> is *)
(* a function from a finite set of user ids to permission levels.  One     *)
(* action is one HTTP request handled from its permission check to its     *)
(* response, or two actions (its check, then its transaction) where        *)
(* requests run concurrently; a transaction that fails leaves every table  *)
(* as it was.                                                              *)
(***************************************************************************)
EXTENDS Integers, FiniteSets, Sequences, TLC

VARIABLES
    boards,          \* board.boards: board id -> [creator_id, name, description,
                     \*   color, created, edited, pin_count]
    board_perms,     \* board.board_perms: set of [board_id, user_id, perm_id]
    playlists,       \* music.playlists: playlist id -> [creator_id]
    playlist_perms,  \* music.playlist_perms: set of [id, user_id, perm_id]
    user_playlists,  \* music.user_playlists: set of [id, user_id]
    pins,            \* board.pins: pin id -> [board_id, creator_id, content, flags,
                     \*   color, created, edited]
    pin_history,     \* board.pin_history: set of [id, pin_id, editor, content, flags, color, time]
    inflight,        \* requests between their permission check and their transaction
    favorites,       \* board.favorites: set of [user_id, pin_id]
    next_history_id, \* the SERIAL sequence behind pin_history.id
    now,             \* the wall clock, in minutes
    user_files,      \* user_files: set of [id, user_id, file_extension]
    uploads_dir,     \* the files under <uploads>: set of [user_id, name]
    staging_dir,     \* the files of the staging directory: set of names
    login_attempts,  \* login_attempts in id order: runs [name, ip, success, time, n]
    queue,           \* site.status in insertion order: [id, name, requestor, status, urls]
    site_queue,      \* site.queue: set of [id, name, requestor]
    handlers,        \* running permission writes: slot -> [pc, held, skipped]
    edits,           \* running modify_board calls: slot -> the call and the row it read
    settings,        \* users.settings: user id -> the JSON object, key -> value
    setting_calls,   \* running change_account_settings calls: slot -> call and row read
    tags,            \* board.tags: tag id -> [name, color, creator_id]
    tag_ids,         \* board.tag_ids: set of [id, board_id]
    next_tag_id,     \* the next value of the sequence of board.tags.id
    deletes,         \* running delete_board calls: slot -> position and rows deleted
    last,            \* the last response: [op, user, status]
    req              \* history: what the last request submitted

vars == <<boards, board_perms, playlists, playlist_perms, user_playlists, pins,
          pin_history, inflight, favorites, next_history_id, now, user_files,
          uploads_dir, staging_dir, login_attempts, queue, site_queue, handlers, edits,
          settings, setting_calls, tags, tag_ids, next_tag_id, deletes,
          last, req>>

boardVars == <<boards, board_perms>>
playlistVars == <<playlists, playlist_perms, user_playlists>>
pinVars == <<pins, pin_history, favorites, next_history_id, inflight>>
fileVars == <<user_files, uploads_dir, staging_dir>>
accountVars == <<settings, setting_calls>>
tagVars == <<tags, tag_ids, next_tag_id>>
cascadeVars == <<deletes>>
extraVars == <<edits, accountVars, tagVars, cascadeVars>>
otherVars == <<site_queue, handlers, extraVars>>
serviceVars == <<fileVars, login_attempts, queue, otherVars>>

----------------------------------------------------------------------------
(* PermLevel, src/shared/types/account.rs *)
View == 0
Interact == 1
SelfEdit == 2
Edit == 3
Owner == 4
PermLevel == {View, Interact, SelfEdit, Edit, Owner}

(* The rows of the users table.  `public` is the account created by init;  *)
(* it is the identity of a request without a session on the read routes.   *)
Public == "public"
Users == {"alice", "bob", "carol"}
AllUsers == Users \cup {Public}
(* An id with no users row. *)
Ghost == "ghost"
(* The users who hold a session and send requests. *)
Callers == {"alice", "bob"}

(* Bounds of the model. *)
MaxBoards == 2
MaxPlaylists == 1
MaxPermEntries == 2
MaxMassEntries == 1

BoardIds == 1..MaxBoards
PlaylistIds == 1..MaxPlaylists

(* The levels that requests submit. *)
InputLevels == {View, Edit, Owner}

(* HashMap<String, Perm> values with at most n entries over `keys`. *)
PermMaps(keys, levels, n) ==
    UNION {[d -> levels] : d \in {s \in SUBSET keys : Cardinality(s) <= n}}

(* Option<Perm>::None, as a level below every PermLevel *)
NoPerm == -1

(* Option<HashMap<String, Perm>>: the empty set, or a set holding the map *)
NoPerms == {}
SomePerms(m) == {m}

UserExists(u) == u \in AllUsers

----------------------------------------------------------------------------
(* Reading permissions *)

(* get_board(board_id).perms: the board's rows as a HashMap *)
BoardPerms(b) ==
    LET rows == {r \in board_perms : r.board_id = b}
    IN [u \in {r.user_id : r \in rows} |->
            (CHOOSE r \in rows : r.user_id = u).perm_id]

(* get_perms_for_board: None when the board or the caller's row is missing *)
get_perms_for_board(user, b) ==
    IF b \notin DOMAIN boards THEN NoPerm
    ELSE IF user \notin DOMAIN BoardPerms(b) THEN NoPerm
    ELSE BoardPerms(b)[user]

Response(op, user, status) == [op |-> op, user |-> user, status |-> status]

----------------------------------------------------------------------------
(* create_board *)

(* The rows create_board inserts: the creator as Owner, then every        *)
(* submitted entry but the creator's. *)
CreateBoardRows(id, creator_id, perms) ==
    {[board_id |-> id, user_id |-> creator_id, perm_id |-> Owner]} \cup
    {[board_id |-> id, user_id |-> u, perm_id |-> perms[u]] :
        u \in DOMAIN perms \ {creator_id}}

(* The values of the name, desc and color of a create request. *)
NewName == "n0"
NewDesc == "d0"
NewColor == "c0"

(* INSERT INTO board.boards(...) VALUES(...): created and edited are now *)
NewBoard(creator_id) ==
    [creator_id |-> creator_id, name |-> NewName, description |-> NewDesc,
     color |-> NewColor, created |-> now, edited |-> now, pin_count |-> 0]

create_board(id, creator_id, perms) ==
    /\ id \notin DOMAIN boards
    /\ IF \A u \in DOMAIN perms \ {creator_id} : UserExists(u)
       THEN /\ boards' = [b \in DOMAIN boards \cup {id} |->
                            IF b = id THEN NewBoard(creator_id) 
                            ELSE boards[b]]
            /\ board_perms' = board_perms \cup CreateBoardRows(id, creator_id, perms)
            /\ last' = Response("create_board", creator_id, 200)
       ELSE \* board_perms.user_id REFERENCES users(id): the insert fails, rollback
            /\ UNCHANGED boardVars
            /\ last' = Response("create_board", creator_id, 500)
    /\ UNCHANGED <<playlistVars, pinVars, now, serviceVars>>

----------------------------------------------------------------------------
(* modify_board *)

(* EditorRestrict without its second loop: nobody's row is put back. *)
EditorRestrictNoKeep(user_id, perms, existing) ==
    [u \in DOMAIN perms |-> IF perms[u] = Owner THEN Edit ELSE perms[u]]

(* EditorRestrict whose second loop puts the caller's own row back too. *)
EditorRestrictKeepsSelf(user_id, perms, existing) ==
    LET demoted == [u \in DOMAIN perms |->
                        IF perms[u] = Owner THEN Edit ELSE perms[u]]
        kept == {u \in DOMAIN existing : existing[u] \in {Edit, Owner}}
    IN [u \in DOMAIN demoted \cup kept |->
            IF u \in kept THEN existing[u] ELSE demoted[u]]

(* The editor restrictions of modify_board: a caller whose level is Edit   *)
(* has submitted Owner entries demoted to Edit, and the rows of every      *)
(* other Edit or Owner holder put back as they were. *)
EditorRestrict(user_id, perms, existing) ==
    LET demoted == [u \in DOMAIN perms |->
                        IF perms[u] = Owner THEN Edit ELSE perms[u]]
        kept == {u \in DOMAIN existing :
                    existing[u] \in {Edit, Owner} /\ u # user_id}
    IN [u \in DOMAIN demoted \cup kept |->
            IF u \in kept THEN existing[u] ELSE demoted[u]]

(* EffectivePerms without the branch for a caller at Edit. *)
EffectivePermsUnrestricted(user_id, perms, existing) ==
    perms

(* The perms map modify_board goes on to insert. *)
EffectivePerms(user_id, perms, existing) ==
    IF existing[user_id] = Edit
    THEN EditorRestrict(user_id, perms, existing)
    ELSE perms

(* The rows modify_board inserts after its DELETE, from the perms and    *)
(* the creator of the board it read at its start. *)
ModifyBoardRowsFrom(user_id, b, perms, existing, creator) ==
    LET eff == EffectivePerms(user_id, perms, existing)
    IN  {[board_id |-> b, user_id |-> creator, perm_id |-> Owner]} \cup
        {[board_id |-> b, user_id |-> u, perm_id |-> eff[u]] :
            u \in {x \in DOMAIN eff : x # creator /\ UserExists(x)}}

(* The board's rows after the delete-and-reinsert of modify_board. *)
ModifyBoardRows(user_id, b, perms) ==
    ModifyBoardRowsFrom(user_id, b, perms, BoardPerms(b), boards[b].creator_id)

(* board_perms after modify_board(user_id, b, _, _, _, perms), perms an    *)
(* Option: rewritten only when a map is given that differs from the rows. *)
ModifyBoardResult(user_id, b, perms) ==
    IF perms # NoPerms /\ perms # SomePerms(BoardPerms(b))
    THEN {r \in board_perms : r.board_id # b} \cup
         ModifyBoardRows(user_id, b, CHOOSE m \in perms : TRUE)
    ELSE board_perms

(* update_board: PUT /v1/board/boards *)
modify_board(user_id, b, perms) ==
    /\ IF b \notin DOMAIN boards
       THEN /\ last' = Response("modify_board", user_id, 403)
            /\ UNCHANGED boardVars
       ELSE IF get_perms_for_board(user_id, b) \in {Owner, Edit}
       THEN /\ board_perms' = ModifyBoardResult(user_id, b, perms)
            /\ boards' = [boards EXCEPT ![b].edited = now]
            /\ last' = Response("modify_board", user_id, 200)
       ELSE /\ last' = Response("modify_board", user_id, 401)
            /\ UNCHANGED boardVars
    /\ UNCHANGED <<playlistVars, pinVars, now, serviceVars>>

(* update_board with name, desc and color, in its two steps.  The route  *)
(* and the handler read the board with get_board on the pool; the handler *)
(* merges the request into the Board it read and, in a transaction begun  *)
(* afterwards, writes name, description, color and edited from it and     *)
(* rewrites the rows when a map is given that differs from the perms read. *)

MaxBoardEdits == 2
EditSlots == 1..MaxBoardEdits
NoEdit == [pc |-> "idle"]

(* update_if_not_none!(b, property) *)
update_if_not_none(old, property) ==
    IF property = {} THEN old ELSE CHOOSE x \in property : TRUE

modify_board_read(s, user_id, b, name, desc, color, perms) ==
    /\ edits[s] = NoEdit
    /\ IF b \notin DOMAIN boards
       THEN /\ last' = Response("modify_board", user_id, 403)
            /\ UNCHANGED edits
       ELSE IF get_perms_for_board(user_id, b) \in {Owner, Edit}
       THEN /\ edits' = [edits EXCEPT ![s] =
                    [pc |-> "read", user_id |-> user_id, board_id |-> b,
                     name |-> name, desc |-> desc, color |-> color, perms |-> perms,
                     b |-> [boards[b] EXCEPT !.edited = now],
                     b_perms |-> BoardPerms(b)]]
            /\ UNCHANGED last
       ELSE /\ last' = Response("modify_board", user_id, 401)
            /\ UNCHANGED edits
    /\ UNCHANGED <<boardVars, playlistVars, pinVars, now, fileVars, login_attempts,
                   queue, site_queue, handlers, accountVars, tagVars,
                   cascadeVars>>

modify_board_write(s) ==
    LET e == edits[s]
        id == e.board_id
    IN /\ e # NoEdit
       /\ edits' = [edits EXCEPT ![s] = NoEdit]
       /\ IF id \notin DOMAIN boards
          THEN \* the UPDATE matches no row and the last get_board finds none
               /\ UNCHANGED boardVars
               /\ last' = Response("modify_board", e.user_id, 500)
          ELSE /\ boards' = [boards EXCEPT
                     ![id].name = update_if_not_none(e.b.name, e.name),
                     ![id].description = update_if_not_none(e.b.description, e.desc),
                     ![id].color = update_if_not_none(e.b.color, e.color),
                     ![id].edited = e.b.edited]
               /\ board_perms' =
                     IF e.perms # NoPerms /\ e.perms # SomePerms(e.b_perms)
                     THEN {r \in board_perms : r.board_id # id} \cup
                          ModifyBoardRowsFrom(e.user_id, id, CHOOSE m \in e.perms : TRUE,
                                              e.b_perms, e.b.creator_id)
                     ELSE board_perms
               /\ last' = Response("modify_board", e.user_id, 200)
       /\ UNCHANGED <<playlistVars, pinVars, now, fileVars, login_attempts,
                      queue, site_queue, handlers, accountVars, tagVars,
                   cascadeVars>>

----------------------------------------------------------------------------
(* mass_change_board_share_perms: PUT /v1/board/boards/perms/bulk *)

(* SELECT DISTINCT board_id ... user_id = $1 and board_id = ANY($2) and perm_id = $3 *)
AllowedBoardIds(user, ids, level) ==
    {r.board_id : r \in {x \in board_perms :
        x.user_id = user /\ x.board_id \in ids /\ x.perm_id = level}}

(* SELECT DISTINCT board_id, user_id ... board_id = ANY($1) and perm_id < Edit, *)
(* mapped to its user_id column *)
CanEditUsers(edit_ids) ==
    {r.user_id : r \in {x \in board_perms :
        x.board_id \in edit_ids /\ x.perm_id < Edit}}

(* INSERT ... VALUES(unnest($1), $2, $3) ON CONFLICT (board_id, user_id)    *)
(* DO UPDATE SET perm_id = $3, on the table `rows` *)
Upsert(rows, board_ids, user_id, level) ==
    {r \in rows : ~(r.board_id \in board_ids /\ r.user_id = user_id)} \cup
    {[board_id |-> b, user_id |-> user_id, perm_id |-> level] : b \in board_ids}

(* The text form of a text[] value, "{a,b}": what a text column receives    *)
(* when a Vec<String> is bound to it.  users.id is CHECKed against          *)
(* ^[a-zA-Z0-9_]+$, so it is the id of no user. *)
ArrayText(xs) == "{array}"

(* board_perms.user_id REFERENCES users(id) *)
ForeignKeyOk(rows) == \A r \in rows : UserExists(r.user_id)

(* The loop over perms_to_add.  Each existing username is upserted at the  *)
(* submitted level on the Owner set; on the Edit set the statement binds   *)
(* can_edit_users (the whole list) as the row's user_id. *)
RECURSIVE MassUpsert(_, _, _, _, _, _)
MassUpsert(rows, names, perms_to_add, owner_ids, edit_ids, can_edit_users) ==
    IF names = {} THEN rows
    ELSE LET username == CHOOSE u \in names : TRUE
             level == perms_to_add[username]
             r1 == IF owner_ids # {}
                   THEN Upsert(rows, owner_ids, username, level)
                   ELSE rows
             r2 == IF can_edit_users # {} /\ edit_ids # {}
                   THEN Upsert(r1, edit_ids, ArrayText(can_edit_users),
                               IF level = Owner THEN Edit ELSE level)
                   ELSE r1
         IN MassUpsert(r2, names \ {username}, perms_to_add,
                       owner_ids, edit_ids, can_edit_users)

(* MassDelete without the condition user_id != t1.creator_id. *)
MassDeleteAny(rows, board_ids, users) ==
    {r \in rows : ~(r.board_id \in board_ids /\ r.user_id \in users)}

(* DELETE FROM board_perms USING boards t1 WHERE user_id != t1.creator_id  *)
(* AND t1.id = board_id AND board_id = ANY($1) AND user_id = ANY($2) *)
MassDelete(rows, board_ids, users) ==
    {r \in rows : ~(r.board_id \in board_ids /\ r.user_id \in users /\
                     r.user_id # boards[r.board_id].creator_id)}

(* CreatorIsOwner left out: the rows stay as the upserts and deletes left them. *)
CreatorIsOwnerSkipped(rows, board_ids) ==
    rows

(* UPDATE board_perms SET perm_id = Owner FROM boards WHERE creator_id =   *)
(* user_id AND id = board_id AND board_id = ANY($1) *)
CreatorIsOwner(rows, board_ids) ==
    {IF r.board_id \in board_ids /\ r.user_id = boards[r.board_id].creator_id
     THEN [r EXCEPT !.perm_id = Owner] ELSE r : r \in rows}

(* The outcome of the transaction: [ok, rows]. A statement that fails ends *)
(* the call with Err and the transaction is rolled back. *)
MassChangeResult(user, ids, perms_to_add, users_to_delete) ==
    LET owner_ids == AllowedBoardIds(user, ids, Owner)
        edit_ids == AllowedBoardIds(user, ids, Edit)
        can_edit_users == CanEditUsers(edit_ids)
        names == {u \in DOMAIN perms_to_add : UserExists(u)}
        added == MassUpsert(board_perms, names, perms_to_add,
                            owner_ids, edit_ids, can_edit_users)
        d1 == IF owner_ids # {} /\ users_to_delete # {}
              THEN MassDelete(added, owner_ids, users_to_delete)
              ELSE added
        d2 == IF edit_ids # {} /\ users_to_delete # {} /\ can_edit_users # {}
              THEN MassDelete(d1, edit_ids, users_to_delete \cap can_edit_users)
              ELSE d1
        fixed == CreatorIsOwner(CreatorIsOwner(d2, owner_ids), edit_ids)
    IN IF ForeignKeyOk(added)
       THEN [ok |-> TRUE, rows |-> fixed]
       ELSE [ok |-> FALSE, rows |-> board_perms]

mass_change_board_share_perms(user, ids, perms_to_add, users_to_delete) ==
    LET res == MassChangeResult(user, ids, perms_to_add, users_to_delete)
    IN /\ board_perms' = res.rows
       /\ last' = Response("mass_change_board_share_perms", user,
                           IF res.ok THEN 200 ELSE 500)
       /\ UNCHANGED <<boards, playlistVars, pinVars, now, serviceVars>>

----------------------------------------------------------------------------
(* get_mass_board_share_perms: POST /v1/board/boards/perms/bulk *)

(* let end = min(200, ids.len()) *)
ShareIdLimit == 200
(* LIMIT 200 of the query that reads the users' rows *)
ShareRowLimit == 200

(* SELECT DISTINCT board_id ... user_id = $1 and board_id = ANY($2) and    *)
(* (perm_id = 3 or perm_id = 4), over the first ShareIdLimit ids *)
ShareAllowedBoardIds(user, ids) ==
    LET end == IF Len(ids) < ShareIdLimit THEN Len(ids) ELSE ShareIdLimit
        first == {ids[i] : i \in 1..end}
    IN {r.board_id : r \in {x \in board_perms :
            x.user_id = user /\ x.board_id \in first /\ x.perm_id \in {Edit, Owner}}}

(* The sets of k rows out of `rows`. *)
RECURSIVE RowSets(_, _)
RowSets(rows, k) ==
    IF k = 0 THEN {{}}
    ELSE UNION {{d \cup {r} : r \in rows \ d} : d \in RowSets(rows, k - 1)}

(* SELECT ... FROM users, board.board_perms WHERE user_id = id and         *)
(* board_id = ANY($2) LIMIT 200: with no ORDER BY, any ShareRowLimit of    *)
(* the rows; the result is each set of rows the query may return *)
ShareUserRows(allowed) ==
    LET rows == {r \in board_perms : r.board_id \in allowed}
        n == Cardinality(rows)
    IN IF n <= ShareRowLimit THEN {rows}
       ELSE {rows \ d : d \in RowSets(rows, n - ShareRowLimit)}

(* The loop over the rows and the loop over user_count: a user stays in    *)
(* the result when all the rows read for them carry one level and their    *)
(* number is board_len. *)
ShareResult(rows, board_len) ==
    LET of(u) == {r \in rows : r.user_id = u}
        kept == {u \in {r.user_id : r \in rows} :
                    /\ Cardinality({r.perm_id : r \in of(u)}) = 1
                    /\ Cardinality(of(u)) = board_len}
    IN [u \in kept |-> (CHOOSE r \in of(u) : TRUE).perm_id]

get_mass_board_share_perms(user, ids) ==
    LET allowed == ShareAllowedBoardIds(user, ids)
    IN /\ \E rows \in ShareUserRows(allowed) :
            last' = [op |-> "get_mass_board_share_perms", user |-> user,
                     status |-> 200,
                     perms |-> ShareResult(rows, Cardinality(allowed))]
       /\ UNCHANGED <<boardVars, playlistVars, pinVars, now, serviceVars>>

----------------------------------------------------------------------------
(* delete_board: DELETE /v1/board/boards *)

PinsOfBoard(b) == {p \in DOMAIN pins : pins[p].board_id = b}

delete_board(user_id, b) ==
    /\ IF b \notin DOMAIN boards
       THEN /\ last' = Response("delete_board", user_id, 403)
            /\ UNCHANGED <<boardVars, pinVars, tag_ids>>
       ELSE IF get_perms_for_board(user_id, b) = Owner
       THEN /\ favorites' = {f \in favorites : f.pin_id \notin PinsOfBoard(b)}
            /\ pin_history' = {h \in pin_history : h.pin_id \notin PinsOfBoard(b)}
            /\ tag_ids' = {t \in tag_ids : t.board_id # b}
            /\ pins' = [p \in DOMAIN pins \ PinsOfBoard(b) |-> pins[p]]
            /\ board_perms' = {r \in board_perms : r.board_id # b}
            /\ boards' = [x \in DOMAIN boards \ {b} |-> boards[x]]
            /\ UNCHANGED <<next_history_id, inflight>>
            /\ last' = Response("delete_board", user_id, 200)
       ELSE /\ last' = Response("delete_board", user_id, 401)
            /\ UNCHANGED <<boardVars, pinVars, tag_ids>>
    /\ UNCHANGED <<playlistVars, now, fileVars, login_attempts, queue, site_queue,
                   handlers, edits, accountVars, tags, next_tag_id, cascadeVars>>

(* delete_board in its steps.  The route reads the board and tests the     *)
(* caller's level; the handler begins a transaction, runs its six DELETE   *)
(* statements and commits.  Each statement sees the rows committed when it *)
(* runs; what it deletes is kept in `gone` until the commit.  A statement  *)
(* that fails ends the call with Err and the transaction is rolled back.   *)

MaxDeletes == 2
DeleteSlots == 1..MaxDeletes
NoDelete == [pc |-> -1]
NoneGone ==
    [favorites |-> {}, pin_history |-> {}, tag_ids |-> {}, pins |-> {},
     board_perms |-> {}, boards |-> {}]
Statements == 6

(* The rows statement k of delete_board(b) matches. *)
DeleteTargets(k, b) ==
    CASE k = 1 -> {f \in favorites : f.pin_id \in PinsOfBoard(b)}
      [] k = 2 -> {h \in pin_history : h.pin_id \in PinsOfBoard(b)}
      [] k = 3 -> {t \in tag_ids : t.board_id = b}
      [] k = 4 -> PinsOfBoard(b)
      [] k = 5 -> {r \in board_perms : r.board_id = b}
      [] k = 6 -> {b} \cap DOMAIN boards

DeleteTable(k) ==
    CASE k = 1 -> "favorites" [] k = 2 -> "pin_history" [] k = 3 -> "tag_ids"
      [] k = 4 -> "pins" [] k = 5 -> "board_perms" [] k = 6 -> "boards"

(* REFERENCES without the checks: every DELETE is accepted. *)
ReferencesOkUnchecked(k, b, gone) == TRUE

(* favorites.pin_id and pin_history.pin_id REFERENCES board.pins(id);      *)
(* pins.board_id, board_perms.board_id and tag_ids.board_id REFERENCES     *)
(* board.boards(id): a DELETE of a row that a remaining row refers to is   *)
(* an error *)
ReferencesOk(k, b, gone) ==
    CASE k = 4 ->
            /\ \A f \in favorites \ gone.favorites : f.pin_id \notin PinsOfBoard(b)
            /\ \A h \in pin_history \ gone.pin_history : h.pin_id \notin PinsOfBoard(b)
      [] k = 6 ->
            /\ PinsOfBoard(b) \subseteq gone.pins
            /\ \A r \in board_perms \ gone.board_perms : r.board_id # b
            /\ \A t \in tag_ids \ gone.tag_ids : t.board_id # b
      [] OTHER -> TRUE

(* A row another open transaction has deleted is locked until it ends. *)
LockedRows(s, table) ==
    UNION {deletes[t].gone[table] :
             t \in {x \in DeleteSlots \ {s} : deletes[x].pc \in 1..(Statements + 1)}}

delete_board_route(s, user_id, b) ==
    /\ deletes[s] = NoDelete
    /\ IF b \notin DOMAIN boards
       THEN /\ last' = Response("delete_board", user_id, 403)
            /\ UNCHANGED deletes
       ELSE IF get_perms_for_board(user_id, b) = Owner
       THEN /\ deletes' = [deletes EXCEPT ![s] =
                    [pc |-> 0, user_id |-> user_id, board_id |-> b]]
            /\ UNCHANGED last
       ELSE /\ last' = Response("delete_board", user_id, 401)
            /\ UNCHANGED deletes
    /\ UNCHANGED <<boardVars, playlistVars, pinVars, now, fileVars, login_attempts,
                   queue, site_queue, handlers, edits, accountVars, tagVars>>

(* handler.delete_board(board_id): pool.begin() *)
delete_board_begin(s) ==
    /\ deletes[s].pc = 0
    /\ deletes' = [deletes EXCEPT ![s] =
            [pc |-> 1, user_id |-> deletes[s].user_id, board_id |-> deletes[s].board_id,
             called_on_board |-> deletes[s].board_id \in DOMAIN boards,
             gone |-> NoneGone]]
    /\ UNCHANGED <<boardVars, playlistVars, pinVars, now, fileVars, login_attempts,
                   queue, site_queue, handlers, edits, accountVars, tagVars, last>>

delete_board_statement(s) ==
    LET d == deletes[s]
        k == d.pc
        rows == DeleteTargets(k, d.board_id)
    IN /\ d.pc \in 1..Statements
       /\ rows \cap LockedRows(s, DeleteTable(k)) = {}
       /\ IF ReferencesOk(k, d.board_id, d.gone)
          THEN /\ deletes' = [deletes EXCEPT ![s].pc = k + 1,
                                ![s].gone[DeleteTable(k)] = @ \cup rows]
               /\ UNCHANGED last
          ELSE \* Err: the transaction is dropped, which rolls it back
               /\ deletes' = [deletes EXCEPT ![s] = NoDelete]
               /\ last' = [op |-> "delete_board", user |-> d.user_id, status |-> 500,
                           gone |-> d.gone, called_on_board |-> d.called_on_board]
       /\ UNCHANGED <<boardVars, playlistVars, pinVars, now, fileVars, login_attempts,
                      queue, site_queue, handlers, edits, accountVars, tagVars>>

(* tx.commit() and Ok(()): the route answers "Deleted" *)
delete_board_commit(s) ==
    LET d == deletes[s]
    IN /\ d.pc = Statements + 1
       /\ deletes' = [deletes EXCEPT ![s] = NoDelete]
       /\ favorites' = favorites \ d.gone.favorites
       /\ pin_history' = pin_history \ d.gone.pin_history
       /\ tag_ids' = tag_ids \ d.gone.tag_ids
       /\ pins' = [p \in DOMAIN pins \ d.gone.pins |-> pins[p]]
       /\ board_perms' = board_perms \ d.gone.board_perms
       /\ boards' = [x \in DOMAIN boards \ d.gone.boards |-> boards[x]]
       /\ last' = [op |-> "delete_board", user |-> d.user_id, status |-> 200,
                   gone |-> d.gone, called_on_board |-> d.called_on_board]
       /\ UNCHANGED <<next_history_id, inflight, playlistVars, now, fileVars,
                      login_attempts, queue, site_queue, handlers, edits, accountVars,
                      tags, next_tag_id>>

----------------------------------------------------------------------------
(* Playlists: src/music/handlers/postgres_handler.rs, src/music/app.rs *)

(* get_playlist(user_id, id).perms *)
PlaylistPerms(id) ==
    LET rows == {r \in playlist_perms : r.id = id}
    IN [u \in {r.user_id : r \in rows} |->
            (CHOOSE r \in rows : r.user_id = u).perm_id]

(* get_user_perm: None when the caller has no row on the playlist *)
get_user_perm(user_id, id) ==
    IF user_id \in DOMAIN PlaylistPerms(id)
    THEN PlaylistPerms(id)[user_id]
    ELSE NoPerm

can_user_edit_playlist(user_id, id) ==
    get_user_perm(user_id, id) \in {Edit, Owner}

can_user_view_playlist(user_id, id) ==
    get_user_perm(user_id, id) \in {View, Edit, Owner}

(* GET /v1/music/playlist/single *)
get_playlist(user_id, id) ==
    /\ last' = Response("get_playlist", user_id,
                        IF can_user_view_playlist(user_id, id) THEN 200 ELSE 401)
    /\ UNCHANGED <<playlistVars, boardVars, pinVars, now, serviceVars>>

(* POST /v1/music/playlist: three inserts under a fresh uuid *)
create_playlist(id, user_id) ==
    /\ id \notin DOMAIN playlists
    /\ playlists' = [x \in DOMAIN playlists \cup {id} |->
                        IF x = id THEN [creator_id |-> user_id] ELSE playlists[x]]
    /\ user_playlists' = user_playlists \cup {[id |-> id, user_id |-> user_id]}
    /\ playlist_perms' = playlist_perms \cup
                            {[id |-> id, user_id |-> user_id, perm_id |-> Owner]}
    /\ last' = Response("create_playlist", user_id, 200)
    /\ UNCHANGED <<boardVars, pinVars, now, serviceVars>>

(* PlaylistEditorRestrict without the demotion of submitted Owner entries. *)
PlaylistEditorRestrictNoDemote(user_id, perms, existing) ==
    LET kept == {u \in DOMAIN existing :
                    existing[u] \in {Edit, Owner} /\ u # user_id}
    IN [u \in DOMAIN perms \cup kept |->
            IF u \in kept THEN existing[u] ELSE perms[u]]

(* The editor restrictions of edit_playlist_perms, for a caller at Edit. *)
PlaylistEditorRestrict(user_id, perms, existing) ==
    LET demoted == [u \in DOMAIN perms |->
                        IF perms[u] = Owner THEN Edit ELSE perms[u]]
        kept == {u \in DOMAIN existing :
                    existing[u] \in {Edit, Owner} /\ u # user_id}
    IN [u \in DOMAIN demoted \cup kept |->
            IF u \in kept THEN existing[u] ELSE demoted[u]]

(* The playlist's rows after the delete-and-reinsert of edit_playlist_perms. *)
EditPlaylistPermsRows(user_id, id, perms) ==
    LET existing == PlaylistPerms(id)
        creator == playlists[id].creator_id
        eff == IF user_id \in DOMAIN existing /\ existing[user_id] = Edit
               THEN PlaylistEditorRestrict(user_id, perms, existing)
               ELSE perms
    IN  {[id |-> id, user_id |-> creator, perm_id |-> Owner]} \cup
        {[id |-> id, user_id |-> u, perm_id |-> eff[u]] :
            u \in {x \in DOMAIN eff : x # creator /\ UserExists(x)}}

(* PUT /v1/music/playlist/perms *)
edit_playlist_perms(user_id, id, perms) ==
    /\ IF can_user_edit_playlist(user_id, id)
       THEN /\ playlist_perms' = {r \in playlist_perms : r.id # id} \cup
                                   EditPlaylistPermsRows(user_id, id, perms)
            /\ last' = Response("edit_playlist_perms", user_id, 200)
       ELSE /\ last' = Response("edit_playlist_perms", user_id, 401)
            /\ UNCHANGED playlist_perms
    /\ UNCHANGED <<playlists, user_playlists, boardVars, pinVars, now, serviceVars>>

----------------------------------------------------------------------------
(* Pins: src/board/handlers/postgres_handler.rs, src/board/app.rs *)

MaxPins == 2
MaxHistory == 2
MaxInflight == 2
PinIds == 1..MaxPins

(* Option<T>: the empty set, or a set holding the value *)
None == {}
Some(x) == {x}
UnwrapOr(opt, default) == IF opt = None THEN default ELSE CHOOSE x \in opt : TRUE

(* The bulk routes keep the first 100 ids of a list. *)
MassLimit == 100
Truncate(ids) ==
    SubSeq(ids, 1, IF Len(ids) < MassLimit THEN Len(ids) ELSE MassLimit)

(* clean_html: the content is parsed and written out again.  A script     *)
(* element goes with its text, a bare ampersand is written as an entity,   *)
(* an entity is read and written back, plain text stays. *)
ScriptContent == "<script>b</script>"
clean_html(content) ==
    IF content = ScriptContent THEN ""
    ELSE IF content = "&" THEN "&amp;"
    ELSE content

(* A color is a sequence of characters; mass_edit_pin_colors takes one of  *)
(* at most 7 characters, each '#', a letter or a digit. *)
MaxColorLen == 7
Alphanumeric == {"a", "b", "0", "1"}
ValidColor(new_color) ==
    /\ Len(new_color) <= MaxColorLen
    /\ \A i \in 1..Len(new_color) :
        new_color[i] = "#" \/ new_color[i] \in Alphanumeric

(* get_perms_for_pin answering View for any pin that exists. *)
get_perms_for_pin_any(user, pin_id) ==
    IF pin_id \notin DOMAIN pins THEN NoPerm ELSE View

(* get_perms_for_pin: the caller's level on the pin's board *)
get_perms_for_pin(user, pin_id) ==
    IF pin_id \notin DOMAIN pins THEN NoPerm
    ELSE get_perms_for_board(user, pins[pin_id].board_id)

(* can_edit_pin without the creator test of the SelfEdit branch. *)
can_edit_pin_any_creator(user, pin_id) ==
    get_perms_for_pin(user, pin_id) \in {SelfEdit, Edit, Owner}

can_edit_pin(user, pin_id) ==
    LET perm == get_perms_for_pin(user, pin_id)
    IN IF perm = NoPerm THEN FALSE
       ELSE IF perm = Edit \/ perm = Owner THEN TRUE
       ELSE IF perm = SelfEdit
       THEN pin_id \in DOMAIN pins /\ pins[pin_id].creator_id = user
       ELSE FALSE

(* The tables a pin transaction writes, as one value. *)
PinDb ==
    [boards |-> boards, pins |-> pins, pin_history |-> pin_history,
     favorites |-> favorites, next_history_id |-> next_history_id]

SetPinDb(db) ==
    /\ boards' = db.boards
    /\ pins' = db.pins
    /\ pin_history' = db.pin_history
    /\ favorites' = db.favorites
    /\ next_history_id' = db.next_history_id

(* A transaction's outcome [ok, db] is committed, or rolled back with 500. *)
Finish(op, user, res) ==
    /\ SetPinDb(IF res.ok THEN res.db ELSE PinDb)
    /\ last' = Response(op, user, IF res.ok THEN 200 ELSE 500)

(* no_update_permission!(): 401, nothing written *)
Refuse(op, user) ==
    /\ last' = Response(op, user, 401)
    /\ UNCHANGED <<boards, pins, pin_history, favorites, next_history_id>>

(* handler.create_pin: INSERT the pin, pin_count + 1, in one transaction.  *)
(* pins.board_id REFERENCES boards(id). *)
CreatePinTx(db, id, creator, board_id, content, flags, color) ==
    IF board_id \in DOMAIN db.boards /\ id \notin DOMAIN db.pins
    THEN [ok |-> TRUE,
          db |-> [db EXCEPT
            !.pins = [x \in DOMAIN db.pins \cup {id} |->
                        IF x = id
                        THEN [board_id |-> board_id, creator_id |-> creator,
                              content |-> clean_html(content),
                              flags |-> flags, color |-> color,
                              created |-> now, edited |-> now]
                        ELSE db.pins[x]],
            !.boards = [db.boards EXCEPT ![board_id].pin_count = @ + 1]]]
    ELSE [ok |-> FALSE, db |-> db]

(* POST /v1/board/pins *)
create_pin(user, id, board_id, content, flags, color) ==
    /\ id \notin DOMAIN pins
    /\ IF get_perms_for_board(user, board_id) \in {SelfEdit, Edit, Owner}
       THEN Finish("create_pin", user,
                   CreatePinTx(PinDb, id, user, board_id, content, flags, color))
       ELSE Refuse("create_pin", user)
    /\ UNCHANGED <<board_perms, playlistVars, inflight, now, serviceVars>>

(* add_to_pin_history: the row with the greatest id of the whole table is  *)
(* overwritten when it is this pin's, by the same editor, and younger than *)
(* 5 minutes; otherwise the pin's rows beyond the 100 latest are deleted   *)
(* and a row is inserted.  pin_history.pin_id REFERENCES pins(id). *)
CoalesceMinutes == 5
HistoryKeep == 100

MaxIdRows(history) ==
    {h \in history : \A g \in history : g.id <= h.id}

(* ORDER BY time DESC LIMIT 100: the rows of the pin with fewer than 100   *)
(* rows before them; rows of one time are taken in the order of their ids, *)
(* latest first. *)
TrimHistory(history, pin_id) ==
    LET mine == {h \in history : h.pin_id = pin_id}
        Before(g, h) == g.time > h.time \/ (g.time = h.time /\ g.id > h.id)
        keep == {h \in mine :
                    Cardinality({g \in mine : Before(g, h)}) < HistoryKeep}
    IN (history \ mine) \cup keep

add_to_pin_history(db, pin_id, user, content, flags, color) ==
    LET latest == {h \in MaxIdRows(db.pin_history) : h.pin_id = pin_id}
        update_instead == \E h \in latest :
                            h.editor = user /\ h.time > now - CoalesceMinutes
        row == [pin_id |-> pin_id, editor |-> user, content |-> content,
                flags |-> flags, color |-> color, time |-> now]
        trimmed == TrimHistory(db.pin_history, pin_id)
    IN IF update_instead
       THEN [ok |-> TRUE,
             db |-> [db EXCEPT !.pin_history =
                        {IF h \in MaxIdRows(db.pin_history)
                         THEN row @@ [id |-> h.id] ELSE h : h \in db.pin_history}]]
       ELSE IF pin_id \in DOMAIN db.pins
       THEN [ok |-> TRUE,
             db |-> [db EXCEPT
                !.pin_history = trimmed \cup {row @@ [id |-> db.next_history_id]},
                !.next_history_id = @ + 1]]
       ELSE [ok |-> FALSE, db |-> [db EXCEPT !.pin_history = trimmed]]

(* ModifyPinRun with an UPDATE that also writes the submitted board_id. *)
ModifyPinRunMovesPin(db, user_id, pin_id, board_id, content, flags, color) ==
    LET p == db.pins[pin_id]
        new == [p EXCEPT !.board_id = UnwrapOr(board_id, p.board_id),
                         !.content = clean_html(UnwrapOr(content, p.content)),
                         !.flags = UnwrapOr(flags, p.flags),
                         !.color = UnwrapOr(color, p.color),
                         !.edited = now]
        updated == [db EXCEPT !.pins = [db.pins EXCEPT ![pin_id] = new]]
    IN IF p.content # new.content \/ p.flags # new.flags \/ p.color # new.color
       THEN add_to_pin_history(updated, pin_id, user_id,
                               p.content, p.flags, p.color)
       ELSE [ok |-> TRUE, db |-> updated]

(* ModifyPinRun without the comparison with the original values. *)
ModifyPinRunAlwaysHistory(db, user_id, pin_id, board_id, content, flags, color) ==
    LET p == db.pins[pin_id]
        new == [p EXCEPT !.content = clean_html(UnwrapOr(content, p.content)),
                         !.flags = UnwrapOr(flags, p.flags),
                         !.color = UnwrapOr(color, p.color),
                         !.edited = now]
        updated == [db EXCEPT !.pins = [db.pins EXCEPT ![pin_id] = new]]
    IN add_to_pin_history(updated, pin_id, user_id, p.content, p.flags, p.color)

(* handler.modify_pin on a pin that exists: the UPDATE (which writes no    *)
(* board_id) commits, then the history is written when content, flags or   *)
(* metadata changed.  The outcome is [ok, db]; db is what is stored even   *)
(* when the history step fails. *)
ModifyPinRun(db, user_id, pin_id, board_id, content, flags, color) ==
    LET p == db.pins[pin_id]
        new == [p EXCEPT !.content = clean_html(UnwrapOr(content, p.content)),
                         !.flags = UnwrapOr(flags, p.flags),
                         !.color = UnwrapOr(color, p.color),
                         !.edited = now]
        updated == [db EXCEPT !.pins = [db.pins EXCEPT ![pin_id] = new]]
    IN IF p.content # new.content \/ p.flags # new.flags \/ p.color # new.color
       THEN add_to_pin_history(updated, pin_id, user_id,
                               p.content, p.flags, p.color)
       ELSE [ok |-> TRUE, db |-> updated]

(* PUT /v1/board/pins *)
modify_pin(user, pin_id, board_id, content, flags, color) ==
    /\ IF can_edit_pin(user, pin_id)
       THEN LET res == ModifyPinRun(PinDb, user, pin_id, board_id,
                                    content, flags, color)
            IN /\ SetPinDb(res.db)
               /\ last' = Response("modify_pin", user,
                                   IF res.ok THEN 200 ELSE 500)
       ELSE Refuse("modify_pin", user)
    /\ UNCHANGED <<board_perms, playlistVars, inflight, now, serviceVars>>

(* The four statements that delete the pin p, which exists. *)
DeletePinRows(db, p) ==
    [db EXCEPT
        !.favorites = {f \in db.favorites : f.pin_id # p},
        !.pin_history = {h \in db.pin_history : h.pin_id # p},
        !.pins = [x \in DOMAIN db.pins \ {p} |-> db.pins[x]],
        !.boards = [db.boards EXCEPT ![db.pins[p].board_id].pin_count = @ - 1]]

(* handler.delete_pin: DELETE ... returning board_id is fetched with       *)
(* fetch_one, an error when no row was deleted. *)
DeletePinTx(db, p) ==
    IF p \in DOMAIN db.pins
    THEN [ok |-> TRUE, db |-> DeletePinRows(db, p)]
    ELSE [ok |-> FALSE, db |-> db]

(* DELETE /v1/board/pins *)
delete_pin(user, pin_id) ==
    /\ IF can_edit_pin(user, pin_id)
       THEN Finish("delete_pin", user, DeletePinTx(PinDb, pin_id))
       ELSE Refuse("delete_pin", user)
    /\ UNCHANGED <<board_perms, playlistVars, inflight, now, serviceVars>>

(* The filter of the bulk routes: the ids, in order and with their         *)
(* repetitions, that can_edit_pin accepts. *)
FilterEditable(user, pin_ids) ==
    LET Test(x) == can_edit_pin(user, x)
    IN SelectSeq(Truncate(pin_ids), Test)

Range(seq) == {seq[i] : i \in 1..Len(seq)}

(* PUT /v1/board/pins/bulk_flags *)
mass_edit_pin_flags(user, pin_ids, flags, add_flags) ==
    LET ids == Range(FilterEditable(user, pin_ids))
    IN /\ pins' = [p \in DOMAIN pins |->
                    IF p \in ids
                    THEN [pins[p] EXCEPT !.flags =
                            IF add_flags THEN @ \cup flags ELSE @ \ flags,
                                         !.edited = now]
                    ELSE pins[p]]
       /\ last' = Response("mass_edit_pin_flags", user, 200)
       /\ UNCHANGED <<boards, pin_history, favorites, next_history_id>>
       /\ UNCHANGED <<board_perms, playlistVars, inflight, now, serviceVars>>

(* PUT /v1/board/pins/bulk_colors *)
mass_edit_pin_colors(user, pin_ids, new_color) ==
    LET ids == Range(FilterEditable(user, pin_ids))
    IN /\ pins' = IF ValidColor(new_color)
                  THEN [p \in DOMAIN pins |->
                          IF p \in ids
                          THEN [pins[p] EXCEPT !.color = new_color, !.edited = now]
                          ELSE pins[p]]
                  ELSE pins
       /\ last' = Response("mass_edit_pin_colors", user, 200)
       /\ UNCHANGED <<boards, pin_history, favorites, next_history_id>>
       /\ UNCHANGED <<board_perms, playlistVars, inflight, now, serviceVars>>

(* The loop of handler.mass_delete_pins over the filtered ids, in one      *)
(* transaction: an id whose pin is gone ends it with an error. *)
RECURSIVE MassDeletePinsTx(_, _)
MassDeletePinsTx(db, ids) ==
    IF ids = << >> THEN [ok |-> TRUE, db |-> db]
    ELSE IF Head(ids) \notin DOMAIN db.pins THEN [ok |-> FALSE, db |-> db]
    ELSE MassDeletePinsTx(DeletePinRows(db, Head(ids)), Tail(ids))

(* DELETE /v1/board/pins/bulk_delete *)
mass_delete_pins(user, pin_ids) ==
    /\ Finish("mass_delete_pins", user,
              MassDeletePinsTx(PinDb, FilterEditable(user, pin_ids)))
    /\ UNCHANGED <<board_perms, playlistVars, inflight, now, serviceVars>>

----------------------------------------------------------------------------
(* Concurrent requests.  A route checks the caller's permission with       *)
(* queries of its own and then runs its transaction; other requests may    *)
(* commit in between.  A request that passed its check waits in inflight   *)
(* with the arguments its transaction will use.  A transaction is atomic:  *)
(* it commits as a whole or is rolled back. *)

FreeSlots == {n \in 1..MaxInflight : \A r \in inflight : r.slot # n}

Pending(op, user, board_id, pin_ids) ==
    [slot |-> CHOOSE n \in FreeSlots : \A m \in FreeSlots : n <= m,
     op |-> op, user |-> user, board_id |-> board_id, pin_ids |-> pin_ids]

(* The check of a route: the request goes on, or is answered 401. *)
Admit(op, user, allowed, board_id, pin_ids) ==
    /\ FreeSlots # {}
    /\ IF allowed
       THEN /\ inflight' = inflight \cup {Pending(op, user, board_id, pin_ids)}
            /\ UNCHANGED last
       ELSE /\ last' = Response(op, user, 401)
            /\ UNCHANGED inflight
    /\ UNCHANGED <<boardVars, playlistVars, pins, pin_history, favorites,
                   next_history_id, now, serviceVars>>

(* The transaction of the admitted request r ends with the outcome res. *)
Retire(r, res) ==
    /\ Finish(r.op, r.user, res)
    /\ inflight' = inflight \ {r}
    /\ UNCHANGED <<board_perms, playlistVars, now, serviceVars>>

(* POST /v1/board/pins, the check and then handler.create_pin *)
create_pin_check(user, board_id) ==
    Admit("create_pin", user,
          get_perms_for_board(user, board_id) \in {SelfEdit, Edit, Owner},
          Some(board_id), << >>)

create_pin_run(r, id, content, flags, color) ==
    /\ r \in inflight
    /\ r.op = "create_pin"
    /\ id \notin DOMAIN pins
    /\ Retire(r, CreatePinTx(PinDb, id, r.user, UnwrapOr(r.board_id, 0),
                             content, flags, color))

(* PUT /v1/board/pins, the check and then handler.modify_pin, whose        *)
(* get_pin(..).unwrap() panics when the pin is gone *)
modify_pin_check(user, pin_id, board_id) ==
    Admit("modify_pin", user, can_edit_pin(user, pin_id), board_id, <<pin_id>>)

modify_pin_run(r, content, flags, color) ==
    /\ r \in inflight
    /\ r.op = "modify_pin"
    /\ Retire(r, IF r.pin_ids[1] \in DOMAIN pins
                 THEN ModifyPinRun(PinDb, r.user, r.pin_ids[1], r.board_id,
                                   content, flags, color)
                 ELSE [ok |-> FALSE, db |-> PinDb])

(* DELETE /v1/board/pins, the check and then handler.delete_pin *)
delete_pin_check(user, pin_id) ==
    Admit("delete_pin", user, can_edit_pin(user, pin_id), None, <<pin_id>>)

delete_pin_run(r) ==
    /\ r \in inflight
    /\ r.op = "delete_pin"
    /\ Retire(r, DeletePinTx(PinDb, r.pin_ids[1]))

(* DELETE /v1/board/pins/bulk_delete, the filter of handler.mass_delete_pins *)
(* and then its transaction *)
mass_delete_pins_filter(user, pin_ids) ==
    Admit("mass_delete_pins", user, TRUE, None, FilterEditable(user, pin_ids))

mass_delete_pins_run(r) ==
    /\ r \in inflight
    /\ r.op = "mass_delete_pins"
    /\ Retire(r, MassDeletePinsTx(PinDb, r.pin_ids))

----------------------------------------------------------------------------
(* The read routes.  A response carries the ids of the boards, pins and    *)
(* history rows whose data it holds. *)

Body(boardIds, pinIds, historyIds) ==
    [boards |-> boardIds, pins |-> pinIds, history |-> historyIds]
EmptyBody == Body({}, {}, {})

Reply(op, user, status, body) ==
    /\ last' = [op |-> op, user |-> user, status |-> status, body |-> body]
    /\ UNCHANGED <<boardVars, playlistVars, pinVars, now, serviceVars>>

(* GET /v1/board/boards/single *)
get_board(user, board_id) ==
    IF get_perms_for_board(user, board_id) = NoPerm
    THEN Reply("get_board", user, 401, EmptyBody)
    ELSE Reply("get_board", user, 200, Body({board_id}, {}, {}))

(* GET /v1/board/pins/single *)
get_pin(user, pin_id) ==
    IF get_perms_for_pin(user, pin_id) = NoPerm
    THEN Reply("get_pin", user, 401, EmptyBody)
    ELSE Reply("get_pin", user, 200, Body({}, {pin_id}, {}))

(* GET /v1/board/pins: pins INNER JOIN board_perms on the caller's rows,   *)
(* of one board when board_id is given *)
get_pins(user, board_id) ==
    LET rows == {r \in board_perms :
                    r.user_id = user /\ (board_id = None \/ r.board_id \in board_id)}
    IN Reply("get_pins", user, 200,
             Body({}, {p \in DOMAIN pins :
                        \E r \in rows : r.board_id = pins[p].board_id}, {}))

(* PinFlags::bits(): LOCKED = 1 << 0, ARCHIVED = 1 << 1, PINNED = 1 << 2 *)
FlagBits(flags) ==
    (IF "LOCKED" \in flags THEN 1 ELSE 0) + (IF "ARCHIVED" \in flags THEN 2 ELSE 0)
        + (IF "PINNED" \in flags THEN 4 ELSE 0)

(* bits & mask, for a mask of one bit *)
BitAnd(bits, mask) == IF (bits \div mask) % 2 = 1 THEN mask ELSE 0

(* SortBucket with the two tests in the other order. *)
SortBucketArchivedFirst(bits) ==
    IF BitAnd(bits, 2) = 2 THEN 0 ELSE IF BitAnd(bits, 4) = 4 THEN 2 ELSE 1

(* CASE when (flags & 4 = 4) then 2 when (flags & 2 = 2) then 0 else 1 end *)
SortBucket(bits) ==
    IF BitAnd(bits, 4) = 4 THEN 2 ELSE IF BitAnd(bits, 2) = 2 THEN 0 ELSE 1

(* the column named by sort_by, Created by default *)
SortColumn(p, sort_by) ==
    IF UnwrapOr(sort_by, "created") = "edited" THEN pins[p].edited ELSE pins[p].created

(* ORDER BY bucket dir, column dir: the orders of the rows the query may    *)
(* return, dir DESC unless sort_down is Some(false); rows equal in both     *)
(* come in any order *)
SortedResults(ids, sort_by, sort_down) ==
    LET down == UnwrapOr(sort_down, TRUE)
        MayPrecede(p, q) ==
            LET bp == SortBucket(FlagBits(pins[p].flags))
                bq == SortBucket(FlagBits(pins[q].flags))
                cp == SortColumn(p, sort_by)
                cq == SortColumn(q, sort_by)
            IN IF down THEN bp > bq \/ (bp = bq /\ cp >= cq)
               ELSE bp < bq \/ (bp = bq /\ cp <= cq)
        n == Cardinality(ids)
    IN {o \in [1..n -> ids] :
            /\ \A i, j \in 1..n : i # j => o[i] # o[j]
            /\ \A i, j \in 1..n : i < j => MayPrecede(o[i], o[j])}

(* GET /v1/board/pins with sort_by and sort_down: the pins in their order *)
get_pins_sorted(user, board_id, sort_by, sort_down) ==
    LET rows == {r \in board_perms :
                    r.user_id = user /\ (board_id = None \/ r.board_id \in board_id)}
        ids == {p \in DOMAIN pins : \E r \in rows : r.board_id = pins[p].board_id}
    IN /\ \E o \in SortedResults(ids, sort_by, sort_down) :
            last' = [op |-> "get_pins", user |-> user, status |-> 200, order |-> o]
       /\ UNCHANGED <<boardVars, playlistVars, pinVars, now, serviceVars>>

(* PUT /v1/board/pins/favorites; favorites.pin_id REFERENCES pins(id) *)
add_favorites(user, pin_ids) ==
    LET ids == Range(Truncate(pin_ids))
    IN /\ IF ids \subseteq DOMAIN pins
          THEN /\ favorites' = favorites \cup {[user_id |-> user, pin_id |-> p] : p \in ids}
               /\ last' = Response("add_favorites", user, 200)
          ELSE /\ UNCHANGED favorites
               /\ last' = Response("add_favorites", user, 500)
       /\ UNCHANGED <<pins, pin_history, next_history_id, inflight>>
       /\ UNCHANGED <<boardVars, playlistVars, now, serviceVars>>

(* GET /v1/board/pins/favorites *)
get_favorites(user, sort_by, sort_down) ==
    LET ids == {p \in DOMAIN pins :
                    /\ [user_id |-> user, pin_id |-> p] \in favorites
                    /\ \E r \in board_perms :
                          r.user_id = user /\ r.board_id = pins[p].board_id}
    IN /\ \E o \in SortedResults(ids, sort_by, sort_down) :
            last' = [op |-> "get_favorites", user |-> user, status |-> 200, order |-> o]
       /\ UNCHANGED <<boardVars, playlistVars, pinVars, now, serviceVars>>

(* GET /v1/board/pins/history/preview *)
get_pin_history_preview(user, pin_id) ==
    IF get_perms_for_pin(user, pin_id) = NoPerm
    THEN Reply("get_pin_history_preview", user, 200, EmptyBody)
    ELSE Reply("get_pin_history_preview", user, 200,
               Body({}, {}, {h.id : h \in {x \in pin_history : x.pin_id = pin_id}}))

(* GET /v1/board/pins/history *)
get_pin_history(user, pin_id, history_id) ==
    IF get_perms_for_pin(user, pin_id) = NoPerm
    THEN Reply("get_pin_history", user, 200, EmptyBody)
    ELSE Reply("get_pin_history", user, 200,
               Body({}, {}, {h.id : h \in {x \in pin_history :
                                x.pin_id = pin_id /\ x.id = history_id}}))

----------------------------------------------------------------------------
(* Files: src/files/postgres_handler.rs, src/files/app.rs *)

(* file_create stops storing parts once 50 were handled. *)
UploadCap == 50

(* What happens to one part of a multipart request: it is stored, or the   *)
(* named step fails.  write_fails stands for an error of the stream, of    *)
(* write_all, of metadata() or of shutdown(); remove_panics is a stream    *)
(* error followed by a failing remove_file(..).unwrap() in file_cleanup!.  *)
PartOutcomes ==
    {"ok", "create_fails", "begin_fails", "write_fails", "no_name",
     "insert_fails", "rename_fails", "commit_fails", "remove_panics"}

(* Uuid::new_v4(): an id that names no row and no file *)
FreshId(used) == CHOOSE n \in 1..(Cardinality(used) + 1) : n \notin used

FileIds(rows, dir) == {r.id : r \in rows} \cup {f.id : f \in dir}

(* The state of a running file_create. *)
UploadStart ==
    [rows |-> user_files, uploads |-> uploads_dir, staging |-> staging_dir,
     succeeded |-> << >>, failed |-> << >>, count |-> 0, error |-> FALSE]

(* file_cleanup_and_continue!: the staging file is removed, the part's     *)
(* index recorded, the transaction rolled back. *)
FileCleanup(st) ==
    [st EXCEPT !.failed = Append(@, st.count), !.count = @ + 1]

(* One pass of the loop of file_create over a part with the given outcome. *)
UploadPart(st, user_id, outcome) ==
    LET temp == FreshId(st.staging)
        file_id == FreshId(FileIds(st.rows, st.uploads))
        file == [user_id |-> user_id, id |-> file_id]
    IN IF outcome = "create_fails" THEN st
       ELSE IF outcome \in {"begin_fails", "remove_panics"}
       THEN [st EXCEPT !.staging = @ \cup {temp}, !.error = TRUE]
       ELSE IF outcome \in {"write_fails", "no_name", "insert_fails", "rename_fails"}
       THEN FileCleanup(st)
       ELSE IF outcome = "commit_fails"
       THEN [st EXCEPT !.uploads = @ \cup {file}, !.error = TRUE]
       ELSE [st EXCEPT !.uploads = @ \cup {file},
                       !.rows = @ \cup {file},
                       !.succeeded = Append(@, file_id),
                       !.count = @ + 1]

(* The loop of file_create.  With 50 parts handled, the next part is taken *)
(* from the stream and each part after it adds the count to failed. *)
RECURSIVE UploadParts(_, _, _)
UploadParts(st, user_id, parts) ==
    IF parts = << >> \/ st.error THEN st
    ELSE IF st.count = UploadCap
    THEN [st EXCEPT !.failed = @ \o [i \in 1..(Len(parts) - 1) |-> st.count]]
    ELSE UploadParts(UploadPart(st, user_id, Head(parts)), user_id, Tail(parts))

(* POST /v1/files: parts is the outcome of each part of the request *)
file_create(user_id, parts) ==
    LET st == UploadParts(UploadStart, user_id, parts)
    IN /\ user_files' = st.rows
       /\ uploads_dir' = st.uploads
       /\ staging_dir' = st.staging
       /\ last' = [op |-> "file_create", user |-> user_id, status |-> 200,
                   error |-> st.error,
                   succeeded |-> IF st.error THEN << >> ELSE st.succeeded,
                   failed |-> IF st.error THEN << >> ELSE st.failed]
       /\ UNCHANGED <<boardVars, playlistVars, pinVars, now, login_attempts, queue, otherVars>>

(* What happens in delete_file: it goes through, remove_file panics, or    *)
(* the DELETE that follows the removal fails. *)
DeleteOutcomes == {"ok", "remove_panics", "delete_fails"}

(* DELETE /v1/files/single *)
delete_file(user_id, id, outcome) ==
    LET file == [user_id |-> user_id, id |-> id]
    IN /\ IF file \notin user_files \/ outcome = "remove_panics"
             \/ file \notin uploads_dir
          THEN UNCHANGED <<user_files, uploads_dir>>
          ELSE /\ uploads_dir' = uploads_dir \ {file}
               /\ user_files' = IF outcome = "ok" THEN user_files \ {file}
                                ELSE user_files
       /\ last' = [op |-> "delete_file", user |-> user_id, status |-> 200,
                   error |-> (file \notin user_files \/ outcome # "ok"
                                \/ file \notin uploads_dir)]
       /\ UNCHANGED <<boardVars, playlistVars, pinVars, now, staging_dir,
                      login_attempts, queue, otherVars>>

----------------------------------------------------------------------------
(* Login: src/shared/handlers/postgres_handler.rs, src/shared/app.rs *)

(* should_ratelimit keeps the 10000 latest rows of login_attempts. *)
AttemptsKeep == 10000

(* server.login_attempt_max_per_window, server.login_attempt_window (in     *)
(* ticks of now) and count.max_password_length of the configuration *)
LoginAttemptMaxPerWindow == 5
LoginAttemptWindow == 1
MaxPasswordLength == 3

(* user_id.to_lowercase() *)
ToLower(name) == IF name = "Alice" THEN "alice" ELSE name

(* A password is a sequence of characters.  The passwords the accounts     *)
(* were created with: bob's is longer than max_password_length, carol's is *)
(* empty (create_account checks neither). *)
PasswordOf(u) ==
    CASE u = "alice" -> <<"a">>
      [] u = "bob" -> <<"b", "b", "b", "b">>
      [] u = "carol" -> << >>
      [] OTHER -> <<"x">>

(* libpasta::hash_password, libpasta::verify_password *)
hash_password(password) == <<"$pasta">> \o password
verify_password(hash, password) == hash # << >> /\ hash = hash_password(password)

(* SELECT * FROM users WHERE id = $1: the password_hash, "" without a row *)
PasswordHash(user_id) ==
    IF user_id \in AllUsers THEN hash_password(PasswordOf(user_id)) ELSE << >>

RECURSIVE Rows(_)
Rows(attempts) ==
    IF attempts = << >> THEN 0 ELSE Head(attempts).n + Rows(Tail(attempts))

(* the table without its k oldest rows *)
RECURSIVE DropOldest(_, _)
DropOldest(attempts, k) ==
    IF k <= 0 \/ attempts = << >> THEN attempts
    ELSE IF Head(attempts).n <= k
    THEN DropOldest(Tail(attempts), k - Head(attempts).n)
    ELSE <<[Head(attempts) EXCEPT !.n = @ - k]>> \o Tail(attempts)

(* DELETE FROM login_attempts WHERE id != all(the 10000 latest) *)
PruneAttempts(attempts) == DropOldest(attempts, Rows(attempts) - AttemptsKeep)

(* INSERT INTO login_attempts *)
InsertAttempt(attempts, name, ip, success) ==
    LET n == Len(attempts)
        row == [name |-> name, ip |-> ip, success |-> success, time |-> now, n |-> 1]
    IN IF n > 0 /\ [attempts[n] EXCEPT !.n = 1] = row
       THEN [attempts EXCEPT ![n].n = @ + 1]
       ELSE Append(attempts, row)

(* select count ... WHERE (name = $1 OR ip = $2) AND success = false      *)
(* AND time >= NOW() - INTERVAL window *)
RECURSIVE FailedInWindow(_, _, _)
FailedInWindow(attempts, user_id, ip) ==
    IF attempts = << >> THEN 0
    ELSE LET r == Head(attempts)
         IN (IF (r.name = user_id \/ r.ip = ip) /\ ~r.success
                 /\ r.time >= now - LoginAttemptWindow
             THEN r.n ELSE 0) + FailedInWindow(Tail(attempts), user_id, ip)

(* should_ratelimit: the pruned table and the verdict *)
should_ratelimit(attempts, user_id, ip) ==
    LET pruned == PruneAttempts(attempts)
    IN [attempts |-> pruned,
        limited |-> FailedInWindow(pruned, user_id, ip) >= LoginAttemptMaxPerWindow]

(* can_login: result is "true", "false" or "error" (the INSERT of the      *)
(* attempt violates REFERENCES users(id)) *)
can_login(attempts, user_id, password, ip) ==
    IF user_id = Public THEN [result |-> "false", attempts |-> attempts]
    ELSE LET password_correct_override == Len(password) <= MaxPasswordLength
             pw == IF password_correct_override THEN password
                   ELSE <<"f", "a", "k", "e">>
             success == /\ verify_password(PasswordHash(user_id), pw)
                        /\ Len(pw) > 0
                        /\ password_correct_override
         IN IF ToLower(user_id) \notin AllUsers
            THEN [result |-> "error", attempts |-> attempts]
            ELSE [result |-> IF success THEN "true" ELSE "false",
                  attempts |-> InsertAttempt(attempts, ToLower(user_id), ip, success)]

(* POST /v1/login *)
login(username, password, ip) ==
    LET before == FailedInWindow(login_attempts, username, ip)
        rl == should_ratelimit(login_attempts, username, ip)
        cl == can_login(rl.attempts, username, password, ip)
        answer(status, result, identity) ==
            [op |-> "login", user |-> username, status |-> status,
             can_login |-> result, identity |-> identity, failed_before |-> before]
    IN /\ IF rl.limited
          THEN /\ login_attempts' = rl.attempts
               /\ last' = answer(429, "none", None)
          ELSE /\ login_attempts' = cl.attempts
               /\ last' = CASE cl.result = "true" -> answer(200, "true", Some(username))
                            [] cl.result = "false" -> answer(401, "false", None)
                            [] OTHER -> answer(500, "error", None)
       /\ UNCHANGED <<boardVars, playlistVars, pinVars, now, fileVars, queue, otherVars>>

----------------------------------------------------------------------------
(* The song queue: src/music/handlers/postgres_handler.rs, src/music/app.rs *)

(* music.max_songs_in_queue of the configuration *)
MaxSongsInQueue == 3

Min(a, b) == IF a <= b THEN a ELSE b

(* SELECT COUNT ... FROM site.status WHERE requestor = $1 AND name =        *)
(* 'music_download' AND status = 'queued' *)
QueuedDownloads(rows, user_id) ==
    Cardinality({i \in 1..Len(rows) :
                    /\ rows[i].requestor = user_id
                    /\ rows[i].name = "music_download"
                    /\ rows[i].status = "queued"})

can_add_songs(rows, user_id, song_url_len) ==
    LET count == QueuedDownloads(rows, user_id)
    IN count + Min(MaxSongsInQueue, count + song_url_len) <= MaxSongsInQueue

(* Uuid::new_v4() of a job: an id no row of site.status or site.queue has *)
JobIds(status_rows, queue_rows) ==
    {status_rows[i].id : i \in 1..Len(status_rows)} \cup {q.id : q \in queue_rows}

(* the i-th of the ids that are not in use *)
NthJobId(status_rows, queue_rows, i) ==
    LET used == JobIds(status_rows, queue_rows)
        free == 1..(Cardinality(used) + i) \ used
    IN CHOOSE n \in free : Cardinality({m \in free : m < n}) = i - 1

NextJobId(status_rows, queue_rows) == NthJobId(status_rows, queue_rows, 1)

(* POST /v1/music/playlist/song/url with song_url_len urls: one            *)
(* music_add_urls_to_playlist job holding the playlist id and at most      *)
(* max_songs_in_queue urls.  Neither the route nor the handler reads       *)
(* music.playlist_perms. *)
add_songs_by_url(user_id, playlist_id, song_url_len) ==
    LET count == QueuedDownloads(queue, user_id)
        answer(status, urls) ==
            [op |-> "add_songs_by_url", user |-> user_id, status |-> status,
             queued_before |-> count, enqueued |-> urls,
             notified |-> (status = 200)]
        end == Min(MaxSongsInQueue, song_url_len)
    IN /\ IF ~can_add_songs(queue, user_id, song_url_len)
          THEN /\ UNCHANGED queue
               /\ last' = answer(429, 0)
          ELSE /\ queue' = Append(queue, [id |-> NextJobId(queue, site_queue),
                                          name |-> "music_add_urls_to_playlist",
                                          requestor |-> user_id,
                                          status |-> "queued", urls |-> end,
                                          playlist_id |-> playlist_id])
               /\ last' = answer(200, end)
       /\ UNCHANGED <<boardVars, playlistVars, pinVars, now, fileVars, login_attempts,
                      otherVars>>

(* The site's worker takes the oldest music_add_urls_to_playlist job and   *)
(* queues one music_download job per url for its requestor. *)
worker_expand ==
    /\ queue # << >>
    /\ Head(queue).name = "music_add_urls_to_playlist"
    /\ queue' = Tail(queue) \o
                [i \in 1..Head(queue).urls |->
                    [id |-> NthJobId(queue, site_queue, i),
                     name |-> "music_download", requestor |-> Head(queue).requestor,
                     status |-> "queued", urls |-> 1]]
    /\ UNCHANGED <<boardVars, playlistVars, pinVars, now, fileVars, login_attempts,
                   otherVars, last>>

(* The worker finishes the oldest music_download job. *)
worker_download ==
    /\ queue # << >>
    /\ Head(queue).name = "music_download"
    /\ queue' = Tail(queue)
    /\ UNCHANGED <<boardVars, playlistVars, pinVars, now, fileVars, login_attempts,
                   otherVars, last>>

----------------------------------------------------------------------------
(* Tags *)

(* board.tag_ids has no key: the rows are kept as a set, which is what    *)
(* every query on them reads. *)

(* SELECT * FROM board.tag_ids WHERE id = $1, mapped to board_id *)
TagBoards(id) == {t.board_id : t \in {x \in tag_ids : x.id = id}}

(* TagRow without the test of creator_id. *)
TagRowAnyCreator(creator_id, id) ==
    IF id \in DOMAIN tags THEN Some(id) ELSE None

(* SELECT * FROM board.tags WHERE id = $1 AND creator_id = $2: the id of   *)
(* the row, or None, for which fetch_one gives Err *)
TagRow(creator_id, id) ==
    IF id \in DOMAIN tags /\ tags[id].creator_id = creator_id THEN Some(id) ELSE None

(* board::Tag *)
Tag(id) == [id |-> id, creator_id |-> tags[id].creator_id, name |-> tags[id].name,
            color |-> tags[id].color, board_ids |-> TagBoards(id)]

TagResponse(op, user, status, found) ==
    [op |-> op, user |-> user, status |-> status, tags |-> found]

(* INSERT INTO board.tag_ids(id, board_id) VALUES($1, unnest($2)) on the   *)
(* table `rows`: [ok, rows]; tag_ids.board_id REFERENCES board.boards(id) *)
InsertTagIds(rows, id, board_ids) ==
    IF board_ids \subseteq DOMAIN boards
    THEN [ok |-> TRUE,
          rows |-> rows \cup {[id |-> id, board_id |-> b] : b \in board_ids}]
    ELSE [ok |-> FALSE, rows |-> rows]

(* create_tag: INSERT INTO board.tags ... RETURNING id, then               *)
(* INSERT INTO board.tag_ids(id, board_id) VALUES($1, unnest($2)); the     *)
(* second fails for a board id with no board and leaves the tag *)
create_tag(creator_id, name, color, board_ids) ==
    /\ tags' = [t \in DOMAIN tags \cup {next_tag_id} |->
                    IF t = next_tag_id
                    THEN [name |-> name, color |-> color, creator_id |-> creator_id]
                    ELSE tags[t]]
    /\ next_tag_id' = next_tag_id + 1
    /\ IF Range(board_ids) \subseteq DOMAIN boards
       THEN /\ tag_ids' = tag_ids \cup
                    {[id |-> next_tag_id, board_id |-> b] : b \in Range(board_ids)}
            /\ last' = TagResponse("create_tag", creator_id, 200, {})
       ELSE /\ UNCHANGED tag_ids
            /\ last' = TagResponse("create_tag", creator_id, 500, {})
    /\ UNCHANGED <<boardVars, playlistVars, pinVars, now, fileVars, login_attempts,
                   queue, site_queue, handlers, edits, accountVars, cascadeVars>>

(* GET /v1/board/tags/single *)
get_tag(creator_id, id) ==
    /\ last' = IF TagRow(creator_id, id) = None
               THEN TagResponse("get_tag", creator_id, 500, {})
               ELSE TagResponse("get_tag", creator_id, 200, {Tag(id)})
    /\ UNCHANGED tagVars
    /\ UNCHANGED <<boardVars, playlistVars, pinVars, now, fileVars, login_attempts,
                   queue, site_queue, handlers, edits, accountVars, cascadeVars>>

(* GET /v1/board/tags *)
get_tags(creator_id) ==
    /\ last' = TagResponse("get_tags", creator_id, 200,
                    {Tag(id) : id \in {x \in DOMAIN tags : tags[x].creator_id = creator_id}})
    /\ UNCHANGED tagVars
    /\ UNCHANGED <<boardVars, playlistVars, pinVars, now, fileVars, login_attempts,
                   queue, site_queue, handlers, edits, accountVars, cascadeVars>>

(* PUT /v1/board/tags: three statements on the pool, no transaction *)
modify_tag(creator_id, id, name, color, board_ids) ==
    /\ IF TagRow(creator_id, id) = None
       THEN /\ last' = TagResponse("modify_tag", creator_id, 500, {})
            /\ UNCHANGED tagVars
       ELSE IF tags[id].creator_id # creator_id
       THEN /\ last' = TagResponse("modify_tag", creator_id, 200, {})
            /\ UNCHANGED tagVars
       ELSE LET ins == InsertTagIds({t \in tag_ids : t.id # id}, id,
                                    IF board_ids = None THEN TagBoards(id)
                                    ELSE Range(UnwrapOr(board_ids, << >>)))
            IN /\ tags' = [tags EXCEPT ![id].name = UnwrapOr(name, @),
                                        ![id].color = UnwrapOr(color, @)]
               /\ tag_ids' = ins.rows
               /\ UNCHANGED next_tag_id
               /\ last' = TagResponse("modify_tag", creator_id,
                                      IF ins.ok THEN 200 ELSE 500, {})
    /\ UNCHANGED <<boardVars, playlistVars, pinVars, now, fileVars, login_attempts,
                   queue, site_queue, handlers, edits, accountVars, cascadeVars>>

(* PUT /v1/board/tags/boards.  The DELETE reads                            *)
(* "WHERE id = $1 AND board_id = ANY($1)": $1 is the integer id, ANY needs *)
(* an array, and the statement is an error whenever it is sent. *)
tag_add_remove_boards(creator_id, id, board_ids_to_add, board_ids_to_delete) ==
    /\ IF TagRow(creator_id, id) = None
       THEN /\ last' = TagResponse("tag_add_remove_boards", creator_id, 500, {})
            /\ UNCHANGED tagVars
       ELSE IF tags[id].creator_id # creator_id
       THEN /\ last' = TagResponse("tag_add_remove_boards", creator_id, 200, {})
            /\ UNCHANGED tagVars
       ELSE IF Len(board_ids_to_delete) > 0
       THEN /\ last' = TagResponse("tag_add_remove_boards", creator_id, 500, {})
            /\ UNCHANGED tagVars
       ELSE LET ins == IF Len(board_ids_to_add) > 0
                       THEN InsertTagIds(tag_ids, id, Range(board_ids_to_add))
                       ELSE [ok |-> TRUE, rows |-> tag_ids]
            IN /\ tag_ids' = ins.rows
               /\ UNCHANGED <<tags, next_tag_id>>
               /\ last' = TagResponse("tag_add_remove_boards", creator_id,
                                      IF ins.ok THEN 200 ELSE 500, {})
    /\ UNCHANGED <<boardVars, playlistVars, pinVars, now, fileVars, login_attempts,
                   queue, site_queue, handlers, edits, accountVars, cascadeVars>>

(* DELETE /v1/board/tags *)
delete_tags(creator_id, ids) ==
    LET allowed_tag_ids == {id \in Range(ids) \cap DOMAIN tags :
                                tags[id].creator_id = creator_id}
    IN /\ tag_ids' = {t \in tag_ids : t.id \notin allowed_tag_ids}
       /\ tags' = [id \in DOMAIN tags \ allowed_tag_ids |-> tags[id]]
       /\ UNCHANGED next_tag_id
       /\ last' = TagResponse("delete_tags", creator_id, 200, {})
       /\ UNCHANGED <<boardVars, playlistVars, pinVars, now, fileVars, login_attempts,
                   queue, site_queue, handlers, edits, accountVars, cascadeVars>>

----------------------------------------------------------------------------
(* Account settings: PUT /v1/user_settings *)

MaxSettingCalls == 2
SettingSlots == 1..MaxSettingCalls
NoCall == [pc |-> "idle"]

(* new_settings.merge(settings) on two JSON objects whose values are       *)
(* numbers: every key of b, with b's value, and the other keys of a *)
Merge(a, b) ==
    [k \in DOMAIN a \cup DOMAIN b |-> IF k \in DOMAIN b THEN b[k] ELSE a[k]]

(* SELECT * FROM users where id = $1, fetch_one: Err for a missing user;   *)
(* the row's settings are kept by the call *)
change_account_settings_read(s, user_id, new) ==
    /\ setting_calls[s] = NoCall
    /\ IF UserExists(user_id)
       THEN /\ setting_calls' = [setting_calls EXCEPT ![s] =
                    [pc |-> "read", user_id |-> user_id, settings |-> new,
                     new_settings |-> settings[user_id]]]
            /\ UNCHANGED last
       ELSE /\ UNCHANGED setting_calls
            /\ last' = Response("change_account_settings", user_id, 500)
    /\ UNCHANGED <<boardVars, playlistVars, pinVars, now, fileVars, login_attempts,
                   queue, site_queue, handlers, edits, settings, tagVars,
                   cascadeVars>>

(* merge, then UPDATE users SET settings = to_json($1) WHERE id = $2 *)
change_account_settings_write(s) ==
    LET c == setting_calls[s]
    IN /\ c # NoCall
       /\ setting_calls' = [setting_calls EXCEPT ![s] = NoCall]
       /\ settings' = [settings EXCEPT ![c.user_id] = Merge(c.new_settings, c.settings)]
       /\ last' = Response("change_account_settings", c.user_id, 200)
       /\ UNCHANGED <<boardVars, playlistVars, pinVars, now, fileVars, login_attempts,
                      queue, site_queue, handlers, edits, tagVars,
                      cascadeVars>>

----------------------------------------------------------------------------
(* Site jobs: src/site/handlers/web_handler.rs, src/site/app.rs *)

(* queue_task: a row in site.queue, a row with the same id in site.status, *)
(* NOTIFY hellomouse_apps_site_update *)
queue_task(cmd, user, op) ==
    LET uuid == NextJobId(queue, site_queue)
    IN /\ site_queue' = site_queue \cup {[id |-> uuid, name |-> cmd, requestor |-> user]}
       /\ queue' = Append(queue, [id |-> uuid, name |-> cmd, requestor |-> user,
                                  status |-> "queued", urls |-> 1])
       /\ last' = [op |-> op, user |-> user, status |-> 200, notified |-> TRUE]

Strategies == {"pdf", "html", "media"}

(* POST /v1/site/download *)
download_site(user, strategy) ==
    /\ IF strategy \notin Strategies
       THEN /\ UNCHANGED <<queue, site_queue>>
            /\ last' = [op |-> "download_site", user |-> user, status |-> 200,
                        notified |-> FALSE]
       ELSE queue_task(strategy, user, "download_site")
    /\ UNCHANGED <<boardVars, playlistVars, pinVars, now, fileVars, login_attempts, handlers,
                 extraVars>>

(* POST /v1/board/pins/preview *)
get_pin_preview(user, pin_id) ==
    /\ IF ~can_edit_pin(user, pin_id)
       THEN /\ UNCHANGED <<queue, site_queue>>
            /\ last' = [op |-> "get_pin_preview", user |-> user, status |-> 401,
                        notified |-> FALSE]
       ELSE queue_task("pin_preview", user, "get_pin_preview")
    /\ UNCHANGED <<boardVars, playlistVars, pinVars, now, fileVars, login_attempts, handlers,
                 extraVars>>

----------------------------------------------------------------------------
(* The connection pool: src/shared/util/config.rs (get_pool), and the      *)
(* connections modify_board, edit_playlist_perms and                       *)
(* mass_change_board_share_perms take from it. *)

(* PgPoolOptions::new().max_connections(5) *)
PoolSize == 5
MaxHandlers == 6
Slots == 1..MaxHandlers

(* the request a slot runs, each by alice on board or playlist 1 *)
HandlerOp(r) ==
    CASE r % 3 = 1 -> "modify_board"
      [] r % 3 = 2 -> "edit_playlist_perms"
      [] OTHER -> "mass_change_board_share_perms"

IdleHandler == [pc |-> "idle", held |-> 0, skipped |-> FALSE]

RECURSIVE HeldBy(_)
HeldBy(S) ==
    IF S = {} THEN 0
    ELSE LET r == CHOOSE x \in S : TRUE IN handlers[r].held + HeldBy(S \ {r})

InUse == HeldBy(Slots)

(* the map of the request: one entry, for bob *)
HandlerPerms == [u \in {"bob"} |-> View]
SkippedPerms == [u \in {} |-> View]

(* self.pool.begin(): the transaction takes a connection *)
handler_begin(r) ==
    /\ handlers[r].pc = "idle"
    /\ InUse < PoolSize
    /\ handlers' = [handlers EXCEPT ![r] = [pc |-> "begun", held |-> 1, skipped |-> FALSE]]
    /\ UNCHANGED <<boardVars, playlistVars, pinVars, now, fileVars, login_attempts,
                   queue, site_queue, extraVars, last>>

(* SELECT * FROM users ... fetch_one(&self.pool): a second connection is   *)
(* taken from the pool while the transaction is open *)
handler_select(r) ==
    /\ handlers[r].pc = "begun"
    /\ InUse < PoolSize
    /\ handlers' = [handlers EXCEPT ![r].pc = "select", ![r].held = 2]
    /\ UNCHANGED <<boardVars, playlistVars, pinVars, now, fileVars, login_attempts,
                   queue, site_queue, extraVars, last>>

(* no connection within the pool's acquire timeout: fetch_one is an error, *)
(* is_err() holds and the entry is skipped like one of an unknown user *)
handler_select_timeout(r) ==
    /\ handlers[r].pc = "begun"
    /\ InUse = PoolSize
    /\ handlers' = [handlers EXCEPT ![r].pc = "checked", ![r].skipped = TRUE]
    /\ UNCHANGED <<boardVars, playlistVars, pinVars, now, fileVars, login_attempts,
                   queue, site_queue, extraVars, last>>

(* the SELECT returns and its connection goes back to the pool *)
handler_selected(r) ==
    /\ handlers[r].pc = "select"
    /\ handlers' = [handlers EXCEPT ![r].pc = "checked", ![r].held = 1]
    /\ UNCHANGED <<boardVars, playlistVars, pinVars, now, fileVars, login_attempts,
                   queue, site_queue, extraVars, last>>

(* tx.commit(): the writes of the request take effect, the connection goes *)
(* back to the pool *)
handler_commit(r) ==
    LET perms == IF handlers[r].skipped THEN SkippedPerms ELSE HandlerPerms
        op == HandlerOp(r)
    IN /\ handlers[r].pc = "checked"
       /\ handlers' = [handlers EXCEPT ![r] = IdleHandler]
       /\ board_perms' =
            CASE op = "modify_board" /\ 1 \in DOMAIN boards ->
                    ModifyBoardResult("alice", 1, SomePerms(perms))
              [] op = "mass_change_board_share_perms" ->
                    MassChangeResult("alice", {1}, perms, {}).rows
              [] OTHER -> board_perms
       /\ playlist_perms' =
            IF op = "edit_playlist_perms" /\ can_user_edit_playlist("alice", 1)
            THEN {x \in playlist_perms : x.id # 1} \cup
                    EditPlaylistPermsRows("alice", 1, perms)
            ELSE playlist_perms
       /\ last' = Response(op, "alice", 200)
       /\ UNCHANGED <<boards, playlists, user_playlists, pinVars, now, fileVars,
                      login_attempts, queue, site_queue, extraVars>>

----------------------------------------------------------------------------
(* The board-permission system: boards are created, shared and deleted. *)

NoRequest == Response("init", Public, 200)
NoReq == [target |-> 0, level |-> NoPerm, perms |-> NoPerms]

Init ==
    /\ boards = << >>
    /\ board_perms = {}
    /\ playlists = << >>
    /\ playlist_perms = {}
    /\ user_playlists = {}
    /\ pins = << >>
    /\ pin_history = {}
    /\ inflight = {}
    /\ favorites = {}
    /\ next_history_id = 1
    /\ now = 0
    /\ user_files = {}
    /\ uploads_dir = {}
    /\ staging_dir = {}
    /\ login_attempts = << >>
    /\ queue = << >>
    /\ site_queue = {}
    /\ handlers = [r \in Slots |-> IdleHandler]
    /\ edits = [s \in EditSlots |-> NoEdit]
    /\ settings = [u \in AllUsers |-> << >>]
    /\ setting_calls = [s \in SettingSlots |-> NoCall]
    /\ tags = << >>
    /\ tag_ids = {}
    /\ next_tag_id = 1
    /\ deletes = [s \in DeleteSlots |-> NoDelete]
    /\ last = NoRequest
    /\ req = NoReq

(* The maps requests submit: entries for users, or one for a missing id. *)
GhostPerms == {[u \in {Ghost} |-> View]}
SubmittedPerms == PermMaps(Users, InputLevels, MaxPermEntries) \cup GhostPerms
MassPerms == PermMaps(Users, InputLevels, MaxMassEntries) \cup GhostPerms
MassDeletes == {s \in SUBSET Users : Cardinality(s) <= MaxMassEntries}

Next ==
    /\ \/ \E id \in BoardIds, u \in Callers, m \in SubmittedPerms :
            create_board(id, u, m)
       \/ \E u \in Callers, b \in BoardIds, m \in SubmittedPerms :
            modify_board(u, b, SomePerms(m))
       \/ \E u \in Callers, b \in BoardIds :
            modify_board(u, b, NoPerms)
       \/ \E u \in Callers, ids \in SUBSET BoardIds \ {{}},
             m \in MassPerms, d \in MassDeletes :
            mass_change_board_share_perms(u, ids, m, d)
       \/ \E u \in Callers, b \in BoardIds :
            delete_board(u, b)
    /\ UNCHANGED req

Spec == Init /\ [][Next]_vars

(* The level of user u on board b in the table `rows`. *)
LevelIn(rows, b, u) ==
    IF \E r \in rows : r.board_id = b /\ r.user_id = u
    THEN (CHOOSE r \in rows : r.board_id = b /\ r.user_id = u).perm_id
    ELSE NoPerm

CreatorRows(b) ==
    {r \in board_perms : r.board_id = b /\ r.user_id = boards[b].creator_id}
OwnerRows(b) ==
    {r \in board_perms : r.board_id = b /\ r.perm_id = Owner}

(* C1: in every state reached by create_board, modify_board and            *)
(* mass_change_board_share_perms calls, every existing board has exactly   *)
(* one board_perms row for its creator, and the level of that row is Owner. *)
C1_CreatorHasOneOwnerRow ==
    \A b \in DOMAIN boards :
        /\ Cardinality(CreatorRows(b)) = 1
        /\ \A r \in CreatorRows(b) : r.perm_id = Owner

(* A bulk change went through, sent by a user who holds Owner on a board   *)
(* somebody else created. *)
C1_Witness ==
    /\ last.op = "mass_change_board_share_perms"
    /\ last.status = 200
    /\ \E b \in DOMAIN boards :
        /\ boards[b].creator_id # last.user
        /\ LevelIn(board_perms, b, last.user) = Owner

(* C2, as claimed: every board has exactly one row at Owner, and it is the *)
(* creator's row. *)
C2_ExactlyOneOwner ==
    \A b \in DOMAIN boards : OwnerRows(b) = CreatorRows(b)

(* C2, amended: after every request the creator's row of every board is at *)
(* Owner, so each board has at least one Owner; and a user other than the  *)
(* creator comes to hold Owner on a board only in the create_board call    *)
(* that made the board, or in a call by a user who held Owner on it. *)
C2_OwnersComeFromOwners ==
    [][\A b \in DOMAIN boards' :
        /\ LevelIn(board_perms', b, boards'[b].creator_id) = Owner
        /\ \A u \in AllUsers \ {boards'[b].creator_id} :
            (/\ LevelIn(board_perms', b, u) = Owner
             /\ ~(b \in DOMAIN boards /\ LevelIn(board_perms, b, u) = Owner))
            => \/ last'.op = "create_board" /\ b \notin DOMAIN boards
               \/ /\ last'.op \in {"modify_board", "mass_change_board_share_perms"}
                  /\ LevelIn(board_perms, b, last'.user) = Owner]_vars

(* A modify_board call went through on a board with two rows at Owner. *)
C2_Witness ==
    /\ last.op = "modify_board"
    /\ last.status = 200
    /\ \E b \in DOMAIN boards :
        /\ Cardinality(OwnerRows(b)) >= 2
        /\ LevelIn(board_perms, b, last.user) = Owner
        /\ boards[b].creator_id # last.user

----------------------------------------------------------------------------
(* Sharing one resource: a board or a playlist is created and its perms    *)
(* are rewritten by its holders.  req records the request's target, the    *)
(* caller's level on it before the call, and the submitted map. *)

MaxShared == 1
SharedCount == Cardinality(DOMAIN boards) + Cardinality(DOMAIN playlists)

Request(target, level, perms) ==
    [target |-> target, level |-> level, perms |-> perms]

NextShare ==
    \/ \E id \in BoardIds, u \in Callers, m \in SubmittedPerms :
        /\ SharedCount < MaxShared
        /\ create_board(id, u, m)
        /\ req' = Request(id, NoPerm, SomePerms(m))
    \/ \E id \in PlaylistIds, u \in Callers :
        /\ SharedCount < MaxShared
        /\ create_playlist(id, u)
        /\ req' = Request(id, NoPerm, NoPerms)
    \/ \E u \in Callers, b \in BoardIds, m \in SubmittedPerms :
        /\ modify_board(u, b, SomePerms(m))
        /\ req' = Request(b, get_perms_for_board(u, b), SomePerms(m))
    \/ \E u \in Callers, id \in PlaylistIds, m \in SubmittedPerms :
        /\ edit_playlist_perms(u, id, m)
        /\ req' = Request(id, get_user_perm(u, id), SomePerms(m))
    \/ \E u \in Callers, b \in BoardIds :
        /\ delete_board(u, b)
        /\ req' = Request(b, get_perms_for_board(u, b), NoPerms)

SpecShare == Init /\ [][NextShare]_vars

(* The level of user u on playlist id in the table `rows`. *)
PlaylistLevelIn(rows, id, u) ==
    IF \E r \in rows : r.id = id /\ r.user_id = u
    THEN (CHOOSE r \in rows : r.id = id /\ r.user_id = u).perm_id
    ELSE NoPerm

(* The step is a perms rewrite that went through for a caller at Edit. *)
EditorRewrote(op) ==
    /\ last'.op = op
    /\ last'.status = 200
    /\ req'.level = Edit
    /\ req'.perms # NoPerms

(* C3: when modify_board or edit_playlist_perms is called with a perms map *)
(* by a caller whose level on the resource is Edit, every other user who   *)
(* held Edit or Owner before the call holds the same level after it. *)
C3_EditorKeepsOtherEditors ==
    [][/\ EditorRewrote("modify_board") =>
            \A v \in AllUsers \ {last'.user} :
                LevelIn(board_perms, req'.target, v) \in {Edit, Owner}
                => LevelIn(board_perms', req'.target, v) =
                        LevelIn(board_perms, req'.target, v)
       /\ EditorRewrote("edit_playlist_perms") =>
            \A v \in AllUsers \ {last'.user} :
                PlaylistLevelIn(playlist_perms, req'.target, v) \in {Edit, Owner}
                => PlaylistLevelIn(playlist_perms', req'.target, v) =
                        PlaylistLevelIn(playlist_perms, req'.target, v)]_vars

(* An Edit caller's modify_board went through whose map gave another user  *)
(* less than the Edit or Owner that user holds. *)
C3_Witness ==
    /\ last.op = "modify_board"
    /\ last.status = 200
    /\ req.level = Edit
    /\ \E m \in req.perms : \E v \in DOMAIN m \ {last.user} :
        /\ LevelIn(board_perms, req.target, v) \in {Edit, Owner}
        /\ m[v] < LevelIn(board_perms, req.target, v)
        /\ v # boards[req.target].creator_id

(* C4: a caller at Edit cannot create a new Owner.  After modify_board or  *)
(* edit_playlist_perms by an Edit caller every user at Owner was at Owner  *)
(* before (or is the creator), and every existing user submitted at Owner  *)
(* who was not at Owner ends at Edit. *)
C4_EditorMakesNoOwner ==
    [][/\ EditorRewrote("modify_board") =>
            /\ \A v \in AllUsers :
                LevelIn(board_perms', req'.target, v) = Owner
                => \/ LevelIn(board_perms, req'.target, v) = Owner
                   \/ v = boards[req'.target].creator_id
            /\ \A m \in req'.perms : \A v \in DOMAIN m :
                (/\ UserExists(v)
                 /\ m[v] = Owner
                 /\ LevelIn(board_perms, req'.target, v) # Owner)
                => LevelIn(board_perms', req'.target, v) = Edit
       /\ EditorRewrote("edit_playlist_perms") =>
            /\ \A v \in AllUsers :
                PlaylistLevelIn(playlist_perms', req'.target, v) = Owner
                => \/ PlaylistLevelIn(playlist_perms, req'.target, v) = Owner
                   \/ v = playlists[req'.target].creator_id
            /\ \A m \in req'.perms : \A v \in DOMAIN m :
                (/\ UserExists(v)
                 /\ m[v] = Owner
                 /\ PlaylistLevelIn(playlist_perms, req'.target, v) # Owner)
                => PlaylistLevelIn(playlist_perms', req'.target, v) = Edit]_vars

(* Bob, at Edit on a playlist, submitted Carol at Owner; Carol is at Edit. *)
C4_Witness ==
    /\ last = Response("edit_playlist_perms", "bob", 200)
    /\ req.level = Edit
    /\ \E m \in req.perms : "carol" \in DOMAIN m /\ m["carol"] = Owner
    /\ PlaylistLevelIn(playlist_perms, req.target, "carol") = Edit

(* The step is Bob, at Edit on a board Alice created, calling modify_board *)
(* with the map m, which sets Alice to View. *)
BobLowersAlice(m) ==
    /\ last'.op = "modify_board"
    /\ last'.user = "bob"
    /\ req'.level = Edit
    /\ req'.perms = SomePerms(m)
    /\ boards[req'.target].creator_id = "alice"
    /\ LevelIn(board_perms, req'.target, "alice") = Owner
    /\ "alice" \in DOMAIN m
    /\ m["alice"] = View

(* C5, as claimed: the call answers 200 and afterwards Alice is at Owner   *)
(* and Bob is at Edit. *)
C5_BobStaysEditor ==
    [][\A m \in SubmittedPerms :
        BobLowersAlice(m) =>
            /\ last'.status = 200
            /\ LevelIn(board_perms', req'.target, "alice") = Owner
            /\ LevelIn(board_perms', req'.target, "bob") = Edit]_vars

(* C5, amended: the call answers 200 and afterwards Alice is at Owner;     *)
(* Bob holds what the map gives him, Edit when it gives Edit or Owner, and *)
(* no row when the map leaves him out. *)
C5_BobGetsWhatHeSubmits ==
    [][\A m \in SubmittedPerms :
        BobLowersAlice(m) =>
            /\ last'.status = 200
            /\ LevelIn(board_perms', req'.target, "alice") = Owner
            /\ LevelIn(board_perms', req'.target, "bob") =
                    IF "bob" \notin DOMAIN m THEN NoPerm
                    ELSE IF m["bob"] = Owner THEN Edit
                    ELSE m["bob"]]_vars

(* Bob, at Edit, submitted the map {alice: View}: Alice is at Owner and    *)
(* Bob has no row. *)
C5_Witness ==
    /\ last = Response("modify_board", "bob", 200)
    /\ req.level = Edit
    /\ req.perms = SomePerms([u \in {"alice"} |-> View])
    /\ boards[req.target].creator_id = "alice"
    /\ LevelIn(board_perms, req.target, "alice") = Owner
    /\ LevelIn(board_perms, req.target, "bob") = NoPerm

----------------------------------------------------------------------------
(* Bulk sharing: boards are created with their perms and changed in bulk.  *)
(* req records the caller's Owner set and Edit set among the submitted     *)
(* ids, and whether the request names the caller. *)

MassRequest(user, ids, perms_to_add, users_to_delete) ==
    [owner_ids |-> AllowedBoardIds(user, ids, Owner),
     edit_ids |-> AllowedBoardIds(user, ids, Edit),
     names_caller |-> user \in DOMAIN perms_to_add \cup users_to_delete]

NextMass ==
    \/ \E id \in BoardIds, u \in Callers, m \in SubmittedPerms :
        /\ create_board(id, u, m)
        /\ req' = NoReq
    \/ \E u \in Callers, ids \in SUBSET BoardIds \ {{}},
          m \in MassPerms, d \in MassDeletes :
        /\ mass_change_board_share_perms(u, ids, m, d)
        /\ req' = MassRequest(u, ids, m, d)
    \/ \E u \in Callers, b \in BoardIds :
        /\ delete_board(u, b)
        /\ req' = NoReq

SpecMass == Init /\ [][NextMass]_vars

(* The step is a bulk change. *)
MassChanged ==
    last'.op = "mass_change_board_share_perms"

(* C9, as claimed: after a mass_change_board_share_perms call the caller's *)
(* row on every board of the caller's Owner set or Edit set is as before. *)
C9_CallerRowUnchanged ==
    [][MassChanged =>
        \A b \in req'.owner_ids \cup req'.edit_ids :
            LevelIn(board_perms', b, last'.user) =
                LevelIn(board_perms, b, last'.user)]_vars

(* C9, amended: the caller's row is as before on every board of the Edit   *)
(* set and on every board of the Owner set that the caller created; on an  *)
(* Owner-set board somebody else created, a request that names the caller  *)
(* is applied to the caller's row like to any other. *)
C9_CallerRowUnchangedUnlessGuestOwner ==
    [][MassChanged =>
        \A b \in req'.owner_ids \cup req'.edit_ids :
            (b \in req'.edit_ids \/ boards[b].creator_id = last'.user)
            => LevelIn(board_perms', b, last'.user) =
                    LevelIn(board_perms, b, last'.user)]_vars

(* A bulk change that names its caller went through on a board the caller  *)
(* created and a board where the caller is at Edit. *)
C9_Witness ==
    /\ last.op = "mass_change_board_share_perms"
    /\ last.status = 200
    /\ req.names_caller
    /\ req.edit_ids # {}
    /\ \E b \in req.owner_ids : boards[b].creator_id = last.user

(* C10: a caller at Owner on board b1 and at Edit on board b2 who submits  *)
(* the ids {b1, b2} and perms_to_add = {carol: Owner} leaves Carol at      *)
(* Owner on b1 and at Edit on b2. *)
C10_CarolOwnerAndEditor ==
    [][\A u \in Callers, b1 \in DOMAIN boards, b2 \in DOMAIN boards :
        (/\ LevelIn(board_perms, b1, u) = Owner
         /\ LevelIn(board_perms, b2, u) = Edit
         /\ mass_change_board_share_perms(u, {b1, b2},
                                          [x \in {"carol"} |-> Owner], {}))
        => /\ LevelIn(board_perms', b1, "carol") = Owner
           /\ LevelIn(board_perms', b2, "carol") = Edit]_vars

----------------------------------------------------------------------------
(* Pins on a shared board: alice creates boards and sets the level of bob; *)
(* both create, edit and delete pins.  Each user draws the ids of the pins *)
(* they create from a range of their own, and a bulk request names the     *)
(* pins of a set.  req records the pin ids the request names. *)

MaxPinBoards == 1
MaxPinHistory == 1
PinBoardIds == 1..MaxPinBoards

GuestPerms == PermMaps({"bob"}, PermLevel \ {Owner}, 1)

OwnPinIds(u) == {id \in PinIds : (id % 2 = 1) <=> (u = "alice")}

(* The list of the ids of a set, in ascending order. *)
RECURSIVE Ascending(_)
Ascending(ids) ==
    IF ids = {} THEN << >>
    ELSE LET least == CHOOSE x \in ids : \A y \in ids : x <= y
         IN <<least>> \o Ascending(ids \ {least})

PinIdSets == {Ascending(ids) : ids \in SUBSET PinIds}

PlainColor == <<"#", "a">>
NewColors == {<<"#", "b">>, <<"#", "-">>}

PinRequest(pin_ids) == [pin_ids |-> Range(pin_ids)]

NextPins ==
    \/ \E id \in PinBoardIds, m \in GuestPerms :
        /\ create_board(id, "alice", m)
        /\ req' = PinRequest(<< >>)
    \/ \E b \in PinBoardIds, m \in GuestPerms :
        /\ modify_board("alice", b, SomePerms(m))
        /\ req' = PinRequest(<< >>)
    \/ \E u \in Callers, id \in PinIds, b \in PinBoardIds :
        /\ id \in OwnPinIds(u)
        /\ create_pin(u, id, b, "a", {}, PlainColor)
        /\ req' = PinRequest(<<id>>)
    \/ \E u \in Callers, id \in PinIds :
        /\ next_history_id <= MaxPinHistory
        /\ modify_pin(u, id, None, Some("b"), None, None)
        /\ req' = PinRequest(<<id>>)
    \/ \E u \in Callers, id \in PinIds :
        /\ delete_pin(u, id)
        /\ req' = PinRequest(<<id>>)
    \/ \E u \in Callers, ids \in PinIdSets, add_flags \in BOOLEAN :
        /\ mass_edit_pin_flags(u, ids, {"LOCKED"}, add_flags)
        /\ req' = PinRequest(ids)
    \/ \E u \in Callers, ids \in PinIdSets, c \in NewColors :
        /\ mass_edit_pin_colors(u, ids, c)
        /\ req' = PinRequest(ids)
    \/ \E u \in Callers, ids \in PinIdSets :
        /\ mass_delete_pins(u, ids)
        /\ req' = PinRequest(ids)

SpecPins == Init /\ [][NextPins]_vars

(* The write routes for pins. *)
PinWriteOps ==
    {"modify_pin", "delete_pin", "mass_edit_pin_flags", "mass_edit_pin_colors",
     "mass_delete_pins"}

HistoryOf(history, p) == {h \in history : h.pin_id = p}

(* The caller's level on the pin's board is Owner or Edit, or is SelfEdit  *)
(* and the caller created the pin. *)
MayEditPin(u, p) ==
    LET level == LevelIn(board_perms, pins[p].board_id, u)
    IN level = Owner \/ level = Edit \/
       (level = SelfEdit /\ pins[p].creator_id = u)

----------------------------------------------------------------------------
(* Reading boards and pins: alice creates boards that she shares with bob  *)
(* or with public, creates pins and edits them; bob and a caller without a *)
(* session read. *)

Readers == {"bob", Public}
ReaderPerms == PermMaps(Readers, {View}, 1)

NextReads ==
    \/ \E id \in BoardIds, m \in ReaderPerms :
        /\ create_board(id, "alice", m)
        /\ UNCHANGED req
    \/ \E id \in PinIds, b \in BoardIds :
        /\ create_pin("alice", id, b, "a", {}, PlainColor)
        /\ UNCHANGED req
    \/ \E id \in PinIds :
        /\ modify_pin("alice", id, None, Some("b"), None, None)
        /\ UNCHANGED req
    \/ \E u \in Readers, b \in BoardIds :
        /\ get_board(u, b)
        /\ UNCHANGED req
    \/ \E u \in Readers, id \in PinIds :
        /\ get_pin(u, id)
        /\ UNCHANGED req
    \/ \E u \in Readers, b \in {None} \cup {Some(x) : x \in BoardIds} :
        /\ get_pins(u, b)
        /\ UNCHANGED req
    \/ \E u \in Readers, id \in PinIds :
        /\ get_pin_history_preview(u, id)
        /\ UNCHANGED req
    \/ \E u \in Readers, id \in PinIds, h \in 1..MaxHistory :
        /\ get_pin_history(u, id, h)
        /\ UNCHANGED req

SpecReads == Init /\ [][NextReads]_vars

ReadOps ==
    {"get_board", "get_pin", "get_pins", "get_pin_history_preview",
     "get_pin_history"}

HasRow(u, b) == \E r \in board_perms : r.board_id = b /\ r.user_id = u

(* C7: get_board, get_pin, get_pins, get_pin_history_preview and           *)
(* get_pin_history answer with the data of a board, a pin or a history row *)
(* only when the caller (public without a session) has a board_perms row   *)
(* on the board, or on the board of the pin. *)
C7_ReadsNeedARow ==
    [][last'.op \in ReadOps =>
        /\ \A b \in last'.body.boards : HasRow(last'.user, b)
        /\ \A p \in last'.body.pins :
            p \in DOMAIN pins /\ HasRow(last'.user, pins[p].board_id)
        /\ \A i \in last'.body.history :
            \E h \in pin_history :
                h.id = i /\ HasRow(last'.user, pins[h.pin_id].board_id)]_vars

(* A caller without a session listed the pins of all boards: the answer    *)
(* holds the pin of the board shared with public, and not the pin of the   *)
(* other board. *)
C7_Witness ==
    /\ last.op = "get_pins"
    /\ last.user = Public
    /\ \E p \in DOMAIN pins, q \in DOMAIN pins :
        /\ p \in last.body.pins
        /\ q \notin last.body.pins
        /\ HasRow(Public, pins[p].board_id)
        /\ ~HasRow(Public, pins[q].board_id)

----------------------------------------------------------------------------
(* Counting pins: alice creates and deletes boards and sends concurrent    *)
(* requests that create, move, delete and bulk-delete pins. *)

MaxListLen == 2
PinIdLists == UNION {[1..n -> PinIds] : n \in 1..MaxListLen}

NextCount ==
    \/ \E id \in BoardIds :
        /\ create_board(id, "alice", << >>)
        /\ UNCHANGED req
    \/ \E b \in BoardIds :
        /\ delete_board("alice", b)
        /\ UNCHANGED req
    \/ \E b \in BoardIds :
        /\ create_pin_check("alice", b)
        /\ UNCHANGED req
    \/ \E r \in inflight, id \in PinIds :
        /\ create_pin_run(r, id, "a", {}, PlainColor)
        /\ UNCHANGED req
    \/ \E id \in PinIds, b \in BoardIds :
        /\ modify_pin_check("alice", id, Some(b))
        /\ UNCHANGED req
    \/ \E r \in inflight :
        /\ modify_pin_run(r, None, None, None)
        /\ UNCHANGED req
    \/ \E id \in PinIds :
        /\ delete_pin_check("alice", id)
        /\ UNCHANGED req
    \/ \E r \in inflight :
        /\ delete_pin_run(r)
        /\ UNCHANGED req
    \/ \E ids \in PinIdLists :
        /\ mass_delete_pins_filter("alice", ids)
        /\ UNCHANGED req
    \/ \E r \in inflight :
        /\ mass_delete_pins_run(r)
        /\ UNCHANGED req

SpecCount == Init /\ [][NextCount]_vars

(* C8: under every interleaving of create_pin, modify_pin, delete_pin,     *)
(* mass_delete_pins (lists with repeated or already deleted ids included)  *)
(* and delete_board, the pin_count of each board is the number of pins     *)
(* whose board_id is that board. *)
C8_PinCountIsNumberOfPins ==
    \A b \in DOMAIN boards : boards[b].pin_count = Cardinality(PinsOfBoard(b))

(* A bulk delete whose list names a pin twice, or a pin deleted since the  *)
(* filter, was rolled back, and a board still counts a pin. *)
C8_Witness ==
    /\ last = Response("mass_delete_pins", "alice", 500)
    /\ \E b \in DOMAIN boards : boards[b].pin_count > 0
    /\ \E r \in inflight : r.op = "modify_pin"

----------------------------------------------------------------------------
(* A long history: alice shares a board with bob at Edit and creates a     *)
(* pin; the two take turns changing its content, each edit following an    *)
(* edit of the other. *)

MaxEdits == 102

OtherContent(c) == IF c = "a" THEN "b" ELSE "a"

TookTurn(u) == last.op = "create_pin" \/ last.user # u

NextTrim ==
    \/ /\ create_board(1, "alice", [x \in {"bob"} |-> Edit])
       /\ UNCHANGED req
    \/ /\ create_pin("alice", 1, 1, "a", {}, PlainColor)
       /\ UNCHANGED req
    \/ \E u \in Callers :
        /\ 1 \in DOMAIN pins
        /\ TookTurn(u)
        /\ next_history_id <= MaxEdits
        /\ modify_pin(u, 1, None, Some(OtherContent(pins[1].content)), None, None)
        /\ UNCHANGED req

SpecTrim == Init /\ [][NextTrim]_vars

(* C11: after any sequence of modify_pin calls a pin has at most 100       *)
(* pin_history rows. *)
C11_AtMostHundredRows ==
    \A p \in DOMAIN pins : Cardinality(HistoryOf(pin_history, p)) <= HistoryKeep

----------------------------------------------------------------------------
(* Pin history: alice shares a board with bob at Edit and creates pins;    *)
(* both edit the pins while the clock advances.  req records the pin the   *)
(* request names. *)

MaxNow == 6
MaxRows == 3
Contents == {"a", "b"}
SubmittedContents == {None} \cup {Some(c) : c \in Contents}

(* chrono::offset::Utc::now() moves on by a minute. *)
Tick ==
    /\ now < MaxNow
    /\ now' = now + 1
    /\ UNCHANGED <<boardVars, playlistVars, pinVars, serviceVars, last, req>>

NextHistory ==
    \/ /\ create_board(1, "alice", [x \in {"bob"} |-> Edit])
       /\ req' = PinRequest(<< >>)
    \/ \E id \in PinIds :
        /\ now = 0
        /\ create_pin("alice", id, 1, "a", {}, PlainColor)
        /\ req' = PinRequest(<<id>>)
    \/ \E u \in Callers, id \in PinIds, c \in SubmittedContents :
        /\ next_history_id <= MaxRows
        /\ modify_pin(u, id, None, c, None, None)
        /\ req' = PinRequest(<<id>>)
    \/ Tick

SpecHistory == Init /\ [][NextHistory]_vars

(* The rows of the pin p with the greatest id among them. *)
LatestOf(history, p) ==
    {h \in HistoryOf(history, p) : \A g \in HistoryOf(history, p) : g.id <= h.id}

(* The step is a modify_pin call by u that changes the content of pin p. *)
ContentChanged(u, p) ==
    /\ p \in DOMAIN pins
    /\ p \in DOMAIN pins'
    /\ pins'[p].content # pins[p].content
    /\ last'.op = "modify_pin"
    /\ last'.user = u

(* C12: when the same editor changes the content of a pin twice less than  *)
(* 5 minutes apart, with no edit of the pin by another editor in between,  *)
(* the second call adds no pin_history row for the pin: it overwrites the  *)
(* row of the first, whatever rows other pins got meanwhile. *)
C12_SecondEditAddsNoRow ==
    [][\A u \in Callers, p \in PinIds :
        (/\ ContentChanged(u, p)
         /\ \E h \in LatestOf(pin_history, p) :
                h.editor = u /\ h.time > now - CoalesceMinutes)
        => Cardinality(HistoryOf(pin_history', p)) =
                Cardinality(HistoryOf(pin_history, p))]_vars

(* C13: a pin is created with content c0 and the same editor changes its   *)
(* content twice within 5 minutes, nothing else being edited.  After the   *)
(* first change the table holds one row, with content c0; the claim is     *)
(* that after the second change it still holds that one row with content   *)
(* c0. *)
C13_RowKeepsFirstContent ==
    [][\A u \in Callers, p \in PinIds :
        (/\ ContentChanged(u, p)
         /\ next_history_id = 2
         /\ \E h \in pin_history :
                /\ pin_history = {h}
                /\ h.pin_id = p
                /\ h.editor = u
                /\ h.time > now - CoalesceMinutes)
        => /\ Cardinality(pin_history') = 1
           /\ \A h \in pin_history, g \in pin_history' : g.content = h.content]_vars

----------------------------------------------------------------------------
(* Merging the fields of modify_pin: alice shares a board with bob at Edit *)
(* and creates a pin; both send modify_pin with any of content, flags and  *)
(* color (the metadata) present.  req records what was submitted. *)

MaxMergeRows == 2
CreatedContents == {"a", "&"}
MergeContents == {None, Some("a"), Some("&"), Some("&amp;")}
MergeFlags == {None, Some({}), Some({"LOCKED"})}
MergeColors == {None, Some(PlainColor), Some(<<"#", "b">>)}

MergeRequest(pin_id, content, flags, color) ==
    [pin_ids |-> {pin_id}, content |-> content, flags |-> flags, color |-> color]

NextMerge ==
    \/ /\ create_board(1, "alice", [x \in {"bob"} |-> Edit])
       /\ req' = MergeRequest(0, None, None, None)
    \/ \E c \in CreatedContents :
        /\ create_pin("alice", 1, 1, c, {}, PlainColor)
        /\ req' = MergeRequest(1, Some(c), Some({}), Some(PlainColor))
    \/ \E u \in Callers, c \in MergeContents, f \in MergeFlags, m \in MergeColors :
        /\ next_history_id <= MaxMergeRows
        /\ modify_pin(u, 1, None, c, f, m)
        /\ req' = MergeRequest(1, c, f, m)

SpecMerge == Init /\ [][NextMerge]_vars

(* The field was not supplied, or was supplied with the stored value. *)
Same(submitted, stored) == submitted = None \/ submitted = Some(stored)

----------------------------------------------------------------------------
(* Stored files: alice and bob upload requests of a few parts, any step of *)
(* which may fail, and delete files. *)

MaxParts == 2
MaxFiles == 2
MaxStaging == 2
RECURSIVE SeqsUpTo(_, _)
SeqsUpTo(S, n) ==
    IF n = 0 THEN {<< >>}
    ELSE SeqsUpTo(S, n - 1) \cup
         {Append(q, x) : q \in {t \in SeqsUpTo(S, n - 1) : Len(t) = n - 1}, x \in S}

NextFiles ==
    \/ \E u \in Callers, parts \in SeqsUpTo(PartOutcomes, MaxParts) :
        /\ Cardinality(uploads_dir) + Len(parts) <= MaxFiles
        /\ Cardinality(staging_dir) < MaxStaging
        /\ file_create(u, parts)
        /\ UNCHANGED req
    \/ \E u \in Callers, id \in 1..MaxFiles, o \in DeleteOutcomes :
        /\ delete_file(u, id, o)
        /\ UNCHANGED req

SpecFiles == Init /\ [][NextFiles]_vars

(* C15: between requests, whatever step failed in them, every user_files   *)
(* row has its file in the uploads directory of its user and every file    *)
(* there has a user_files row. *)
C15_RowsAndFilesAgree ==
    user_files = uploads_dir

----------------------------------------------------------------------------
(* One upload into an empty store: requests of up to three parts with any  *)
(* outcome per part, and requests of more than 50 parts that all go well.  *)

MaxUploadParts == 3
MaxLongUpload == 52
LongUploads == {[i \in 1..n |-> "ok"] : n \in (UploadCap + 1)..MaxLongUpload}

UploadRequest(parts) == [op |-> "file_create", parts |-> parts]

NextUpload ==
    \E parts \in SeqsUpTo(PartOutcomes, MaxUploadParts) \cup LongUploads :
        /\ last.op = "init"
        /\ file_create("alice", parts)
        /\ req' = UploadRequest(parts)

SpecUpload == Init /\ [][NextUpload]_vars

(* zero-based indices of the parts of a request that were not stored *)
NotStored(parts) == {i - 1 : i \in {j \in 1..Len(parts) : parts[j] # "ok"}}

(* C16: file_create accounts for every part of the request exactly once:   *)
(* one id in succeeded per stored part, the zero-based index in failed of  *)
(* each part not stored, as many entries as parts, no staging file left.   *)
C16_EveryPartAccounted ==
    last.op = "file_create" =>
        /\ Len(last.succeeded) + Len(last.failed) = Len(req.parts)
        /\ {last.failed[k] : k \in 1..Len(last.failed)} = NotStored(req.parts)
        /\ {last.succeeded[k] : k \in 1..Len(last.succeeded)} = {f.id : f \in user_files}
        /\ staging_dir = {}

----------------------------------------------------------------------------
(* Logins: existing, unknown and mixed-case user names, with right, wrong, *)
(* empty and too long passwords, from two addresses, while time passes.    *)

MaxAttempts == 3
MaxLoginNow == 2
Usernames == {"alice", "Alice", "bob", "carol", Ghost, Public}
Passwords == {<< >>, <<"a">>, <<"x">>, <<"b", "b", "b", "b">>}
Addresses == {"ip1", "ip2"}

LoginRequest(username, password, ip) ==
    [op |-> "login", username |-> username, password |-> password, ip |-> ip]

NextLogin ==
    \/ \E u \in Usernames, pw \in Passwords, ip \in Addresses :
        /\ Rows(login_attempts) < MaxAttempts
        /\ login(u, pw, ip)
        /\ req' = LoginRequest(u, pw, ip)
    \/ /\ now < MaxLoginNow
       /\ Tick

SpecLogin == Init /\ [][NextLogin]_vars

(* C18: can_login never fails for a wrong password or an unknown user, and *)
(* it is true exactly when the user exists, is not public, and the         *)
(* password is not empty, not longer than max_password_length and the one  *)
(* the account was created with. *)
C18_CanLoginIffValid ==
    (last.op = "login" /\ last.can_login # "none") =>
        /\ last.can_login # "error"
        /\ (last.can_login = "true") <=>
              /\ req.username \in AllUsers \ {Public}
              /\ Len(req.password) > 0
              /\ Len(req.password) <= MaxPasswordLength
              /\ req.password = PasswordOf(req.username)

----------------------------------------------------------------------------
(* A full table: wrong guesses of bob's password from one address, then    *)
(* alice logging in over and over from another, then one more guess. *)

MaxFlood == 10001

NextFlood ==
    \/ /\ Len(login_attempts) <= 2
       /\ login("bob", <<"x">>, "ip1")
       /\ req' = LoginRequest("bob", <<"x">>, "ip1")
    \/ /\ Len(login_attempts) <= 2
       /\ Rows(login_attempts) <= MaxFlood
       /\ login("alice", <<"a">>, "ip2")
       /\ req' = LoginRequest("alice", <<"a">>, "ip2")

SpecFlood == Init /\ [][NextFlood]_vars

(* C17: a login that finds at least login_attempt_max_per_window failed    *)
(* attempts of its user name or its address inside the window is answered  *)
(* 429 and issues no identity. *)
C17_LimitedAnswers429 ==
    (last.op = "login" /\ last.failed_before >= LoginAttemptMaxPerWindow) =>
        (last.status = 429 /\ last.identity = None)

(* C19: login_attempts never holds more than 10000 rows. *)
C19_AtMostTenThousandRows ==
    Rows(login_attempts) <= AttemptsKeep

----------------------------------------------------------------------------
(* The song queue: alice and bob post lists of urls, the worker turns them *)
(* into downloads and works them off. *)

MaxUrls == 4
MaxQueue == 4

SongRequest(user_id, song_url_len) ==
    [op |-> "add_songs_by_url", user |-> user_id, n |-> song_url_len]

NextSongs ==
    \/ \E u \in Callers, n \in 0..MaxUrls :
        /\ Len(queue) < MaxQueue
        /\ add_songs_by_url(u, 1, n)
        /\ req' = SongRequest(u, n)
    \/ /\ worker_expand
       /\ UNCHANGED req
    \/ /\ worker_download
       /\ UNCHANGED req

SpecSongs == Init /\ [][NextSongs]_vars

(* C20: a request for n songs is let through exactly when the user's       *)
(* queued music-download jobs plus n are at most max_songs_in_queue; a     *)
(* request that is not let through is answered 429 and enqueues nothing.   *)
C20_AdmittedIffRoom ==
    last.op = "add_songs_by_url" =>
        /\ (last.status # 429) <=> (last.queued_before + req.n <= MaxSongsInQueue)
        /\ last.status = 429 => last.enqueued = 0

----------------------------------------------------------------------------
(* Jobs: alice and bob ask for pin previews, site downloads and songs. *)

MaxJobs == 3

JobRequest(name) == [op |-> name]

NextJobs ==
    \/ /\ create_board(1, "alice", [u \in {"bob"} |-> View])
       /\ req' = JobRequest("create_board")
    \/ /\ create_pin("alice", 1, 1, "a", {}, PlainColor)
       /\ req' = JobRequest("create_pin")
    \/ \E u \in Callers, id \in PinIds :
        /\ Len(queue) < MaxJobs
        /\ get_pin_preview(u, id)
        /\ req' = JobRequest("pin_preview")
    \/ \E u \in Callers, strategy \in Strategies \cup {"zip"} :
        /\ Len(queue) < MaxJobs
        /\ download_site(u, strategy)
        /\ req' = JobRequest(strategy)
    \/ \E u \in Callers, n \in 1..2 :
        /\ Len(queue) < MaxJobs
        /\ add_songs_by_url(u, 1, n)
        /\ req' = JobRequest("music_add_urls_to_playlist")

SpecJobs == Init /\ [][NextJobs]_vars

(* C21: every job this server has written a queued site.status row for has *)
(* a site.queue row with the same id, and the enqueue was notified. *)
C21_QueuedJobsHaveQueueRows ==
    /\ \A i \in 1..Len(queue) :
          queue[i].status = "queued" =>
              \E q \in site_queue : q.id = queue[i].id /\ q.name = queue[i].name
    /\ (last.op \in {"get_pin_preview", "download_site", "add_songs_by_url"}
          /\ last.status = 200 /\ req.op \in Strategies \cup
                {"pin_preview", "music_add_urls_to_playlist"})
            => last.notified

----------------------------------------------------------------------------
(* Concurrent permission writes against the pool of five connections. *)

HandlerRequest(r) == [op |-> HandlerOp(r)]

NextPool ==
    \/ /\ create_board(1, "alice", [x \in {"carol"} |-> Edit])
       /\ req' = HandlerRequest(1)
    \/ /\ create_playlist(1, "alice")
       /\ req' = HandlerRequest(2)
    \/ \E r \in Slots :
        /\ 1 \in DOMAIN boards /\ 1 \in DOMAIN playlists
        /\ handler_begin(r)
        /\ req' = HandlerRequest(r)
    \/ \E r \in Slots :
        /\ handler_select(r)
        /\ req' = HandlerRequest(r)
    \/ \E r \in Slots :
        /\ handler_select_timeout(r)
        /\ req' = HandlerRequest(r)
    \/ \E r \in Slots :
        /\ handler_selected(r)
        /\ req' = HandlerRequest(r)
    \/ \E r \in Slots :
        /\ handler_commit(r)
        /\ req' = HandlerRequest(r)

SpecPool == Init /\ [][NextPool]_vars

(* C22: no handler holds two connections at once, and no handler that      *)
(* holds a connection waits for the others to give one back. *)
C22_OneConnectionPerHandler ==
    \A r \in Slots :
        /\ handlers[r].held <= 1
        /\ ~(handlers[r].pc = "begun" /\ InUse = PoolSize)

----------------------------------------------------------------------------
(* Reading a playlist: alice shares her playlist at every level, and the   *)
(* users, with and without a row, ask for it. *)

ViewerPerms ==
    UNION {[S -> PermLevel] : S \in SUBSET {"bob", "carol"}}

NextView ==
    \/ /\ create_playlist(1, "alice")
       /\ req' = Request(1, NoPerm, NoPerms)
    \/ \E m \in ViewerPerms :
        /\ edit_playlist_perms("alice", 1, m)
        /\ req' = Request(1, get_user_perm("alice", 1), SomePerms(m))
    \/ \E u \in AllUsers :
        /\ get_playlist(u, 1)
        /\ req' = Request(1, get_user_perm(u, 1), NoPerms)

SpecView == Init /\ [][NextView]_vars

(* C23: get_playlist lets a user read the playlist exactly when the user   *)
(* holds a playlist_perms row on it, whatever its level. *)
C23_AnyRowMayView ==
    last.op = "get_playlist" =>
        ((last.status = 200) <=> (req.level \in PermLevel))

----------------------------------------------------------------------------
(* Sorted listings: alice creates pins with and without the PINNED and     *)
(* ARCHIVED flags at different times, recolours them, marks them all       *)
(* favorites, and lists them in both directions by both columns. *)

MaxSortPins == 3
MaxSortNow == 1
SortPinIds == 1..MaxSortPins
SortFlags == SUBSET {"ARCHIVED", "PINNED"}
SortBys == {None, Some("created"), Some("edited")}
SortDowns == {None, Some(TRUE), Some(FALSE)}

SortRequest(sort_by, sort_down) == [sort_by |-> sort_by, sort_down |-> sort_down]

NextSort ==
    \/ /\ create_board(1, "alice", [x \in {"bob"} |-> View])
       /\ req' = SortRequest(None, None)
    \/ \E id \in SortPinIds, flags \in SortFlags :
        /\ id = Cardinality(DOMAIN pins) + 1
        /\ create_pin("alice", id, 1, "a", flags, PlainColor)
        /\ req' = SortRequest(None, None)
    \/ \E id \in SortPinIds :
        /\ now = MaxSortNow
        /\ mass_edit_pin_colors("alice", <<id>>, PlainColor)
        /\ req' = SortRequest(None, None)
    \/ /\ add_favorites("alice", [i \in SortPinIds |-> i])
       /\ req' = SortRequest(None, None)
    \/ \E sort_by \in SortBys, sort_down \in SortDowns :
        /\ get_pins_sorted("alice", None, sort_by, sort_down)
        /\ req' = SortRequest(sort_by, sort_down)
    \/ \E sort_by \in SortBys, sort_down \in SortDowns :
        /\ get_favorites("alice", sort_by, sort_down)
        /\ req' = SortRequest(sort_by, sort_down)
    \/ /\ now < MaxSortNow
       /\ Tick

SpecSort == Init /\ [][NextSort]_vars

(* the bucket of a pin in the words of the claim *)
Bucket(p) ==
    IF "PINNED" \in pins[p].flags THEN 2
    ELSE IF "ARCHIVED" \in pins[p].flags THEN 0 ELSE 1

Stamp(p) ==
    IF req.sort_by = Some("edited") THEN pins[p].edited ELSE pins[p].created

----------------------------------------------------------------------------
(* Reading the shared permissions of many boards: two boards with every    *)
(* creator and a few shares, then alice's boards shared with bob up to     *)
(* MaxBulkBoards, read one, two and all at a time. *)

MaxBulkBoards == 101
MaxVariedBoards == 2
BulkPerms ==
    {[x \in {"bob"} |-> View], [x \in {"bob"} |-> Edit],
     [x \in {"alice"} |-> Edit], [x \in {"carol"} |-> View]}

BulkRequest(user, ids) == [user |-> user, ids |-> ids]

NextBulk ==
    \/ \E id \in 1..MaxVariedBoards, u \in Callers, m \in BulkPerms :
        /\ id = Cardinality(DOMAIN boards) + 1
        /\ create_board(id, u, m)
        /\ req' = BulkRequest(u, <<>>)
    \/ \E id \in (MaxVariedBoards + 1)..MaxBulkBoards :
        /\ id = Cardinality(DOMAIN boards) + 1
        /\ \A b \in DOMAIN boards :
              BoardPerms(b) = [x \in {"alice", "bob"} |->
                                  IF x = "alice" THEN Owner ELSE View]
        /\ create_board(id, "alice", [x \in {"bob"} |-> View])
        /\ req' = BulkRequest("alice", <<>>)
    \/ \E u \in Callers, n \in {1, 2, Cardinality(DOMAIN boards)} :
        /\ n <= Cardinality(DOMAIN boards)
        /\ get_mass_board_share_perms(u, [i \in 1..n |-> i])
        /\ req' = BulkRequest(u, [i \in 1..n |-> i])

SpecBulk == Init /\ [][NextBulk]_vars

(* the boards of the request the caller may edit, in the claim's words *)
BulkAllowed ==
    {b \in {req.ids[i] : i \in 1..Min(Len(req.ids), ShareIdLimit)} :
        get_perms_for_board(req.user, b) \in {Edit, Owner}}

(* the users with a row on every allowed board, all at one level *)
BulkExpected ==
    LET users == {u \in AllUsers :
                    /\ BulkAllowed # {}
                    /\ \A b \in BulkAllowed : get_perms_for_board(u, b) # NoPerm
                    /\ \A b, c \in BulkAllowed :
                          get_perms_for_board(u, b) = get_perms_for_board(u, c)}
    IN [u \in users |->
            get_perms_for_board(u, CHOOSE b \in BulkAllowed : TRUE)]

(* C25: get_mass_board_share_perms returns exactly the users who hold a    *)
(* row on every allowed board among the first 200 ids (those where the     *)
(* caller is Edit or Owner), at one level on all of them, each mapped to   *)
(* that level. *)
C25_ExactlyCommonUsers ==
    last.op = "get_mass_board_share_perms" => last.perms = BulkExpected

----------------------------------------------------------------------------
(* Editing a board: alice's board, shared with bob at Edit, is edited by   *)
(* both; an edit reads the board, then writes it. *)

MaxEditNow == 1
EditedPerms == [x \in {"bob", "carol"} |-> IF x = "bob" THEN Edit ELSE View]
(* The requests: a new name, a new color, a new description with new      *)
(* perms, and nothing. *)
EditForms ==
    {[name |-> Some("n1"), desc |-> None, color |-> None, perms |-> NoPerms],
     [name |-> None, desc |-> None, color |-> Some("c1"), perms |-> NoPerms],
     [name |-> None, desc |-> Some("d1"), color |-> None, perms |-> SomePerms(EditedPerms)],
     [name |-> None, desc |-> None, color |-> None, perms |-> NoPerms]}
(* alice sends her requests in the first slot, bob in the second *)
EditCaller(s) == IF s = 1 THEN "alice" ELSE "bob"

EditRequest(e) ==
    [name |-> e.name, desc |-> e.desc, color |-> e.color, perms |-> e.perms]

NextEdit ==
    \/ /\ create_board(1, "alice", [x \in {"bob"} |-> Edit])
       /\ req' = NoReq
    \/ /\ create_pin("alice", 1, 1, "a", {}, PlainColor)
       /\ req' = NoReq
    \/ \E s \in EditSlots, f \in EditForms :
        /\ modify_board_read(s, EditCaller(s), 1, f.name, f.desc, f.color, f.perms)
        /\ req' = NoReq
    \/ \E s \in EditSlots :
        /\ modify_board_write(s)
        /\ req' = EditRequest(edits[s])
    \/ /\ now < MaxEditNow
       /\ Tick

SpecEdit == Init /\ [][NextEdit]_vars

(* The step ends a modify_board call that found its board. *)
EditWritten ==
    /\ \E s \in EditSlots : edits[s] # NoEdit /\ edits'[s] = NoEdit
    /\ last'.status = 200

(* C26: modify_board changes, of a board's row, exactly the fields among   *)
(* name, description and color that the request supplies (and edited); a   *)
(* field given as None keeps the value it had; creator, created and        *)
(* pin_count never change; with perms None the permission rows stay. *)
C26_OnlySuppliedFieldsChange ==
    [][EditWritten =>
        /\ boards'[1].name = UnwrapOr(req'.name, boards[1].name)
        /\ boards'[1].description = UnwrapOr(req'.desc, boards[1].description)
        /\ boards'[1].color = UnwrapOr(req'.color, boards[1].color)
        /\ boards'[1].creator_id = boards[1].creator_id
        /\ boards'[1].created = boards[1].created
        /\ boards'[1].pin_count = boards[1].pin_count
        /\ req'.perms = NoPerms => board_perms' = board_perms]_vars

----------------------------------------------------------------------------
(* Account settings: alice, bob and a missing user send settings objects   *)
(* over the keys test and newkey; a call reads the row, then writes it. *)

SettingObjects ==
    {[k \in {"test", "newkey"} |-> IF k = "test" THEN 100 ELSE 1],
     [k \in {"newkey"} |-> 200], [k \in {"test"} |-> 1], << >>}
SettingCallers == {"alice", Ghost}

SettingRequest(user_id, new) == [user_id |-> user_id, settings |-> new]

NextSettings ==
    \/ \E s \in SettingSlots, u \in SettingCallers, new \in SettingObjects :
        /\ change_account_settings_read(s, u, new)
        /\ req' = SettingRequest(u, new)
    \/ \E s \in SettingSlots :
        /\ change_account_settings_write(s)
        /\ req' = SettingRequest(setting_calls[s].user_id, setting_calls[s].settings)

SpecSettings == Init /\ [][NextSettings]_vars

(* The step ends a change_account_settings call with Ok. *)
SettingsWritten ==
    /\ \E s \in SettingSlots : setting_calls[s] # NoCall /\ setting_calls'[s] = NoCall
    /\ last'.status = 200

(* C27: change_account_settings(user, s) leaves the user's settings with   *)
(* every key of s at s's value and every other key as it was stored; for  *)
(* a user that does not exist it returns an error and changes nothing. *)
C27_SettingsMerged ==
    [][/\ SettingsWritten =>
            LET old == settings[req'.user_id]
                new == settings'[req'.user_id]
            IN /\ DOMAIN new = DOMAIN old \cup DOMAIN req'.settings
               /\ \A k \in DOMAIN new :
                    new[k] = IF k \in DOMAIN req'.settings
                             THEN req'.settings[k] ELSE old[k]
       /\ (last'.op = "change_account_settings" /\ last'.status = 500
              /\ ~UserExists(req'.user_id)) => settings' = settings]_vars

----------------------------------------------------------------------------
(* Deleting a board while it is used: alice's board, shared with bob at    *)
(* Edit; bob adds pins and edits them, alice marks favorites, tags the     *)
(* board and sends up to MaxDeletes delete requests. *)

MaxCascadePins == 2
MaxCascadeHistory == 1
MaxCascadeTags == 1

(* An insert that refers to a row an open transaction has deleted waits. *)
BoardLocked(b) == b \in LockedRows(0, "boards")
PinLocked(p) == p \in LockedRows(0, "pins")

NextCascade ==
    \/ /\ last = NoRequest
       /\ create_board(1, "alice", [x \in {"bob"} |-> Edit])
       /\ req' = NoReq
    \/ \E id \in 1..MaxCascadePins :
        /\ id \notin DOMAIN pins
        /\ ~BoardLocked(1)
        /\ create_pin("bob", id, 1, "a", {}, PlainColor)
        /\ req' = NoReq
    \/ \E id \in 1..MaxCascadePins :
        /\ ~PinLocked(id)
        /\ next_history_id <= MaxCascadeHistory
        /\ modify_pin("bob", id, None, Some("b"), None, None)
        /\ req' = NoReq
    \/ \E id \in 1..MaxCascadePins :
        /\ ~PinLocked(id)
        /\ add_favorites("alice", <<id>>)
        /\ req' = NoReq
    \/ /\ next_tag_id <= MaxCascadeTags
       /\ ~BoardLocked(1)
       /\ create_tag("alice", "t", PlainColor, <<1>>)
       /\ req' = NoReq
    \/ \E s \in DeleteSlots :
        /\ delete_board_route(s, "alice", 1)
        /\ req' = NoReq
    \/ \E s \in DeleteSlots :
        /\ delete_board_begin(s)
        /\ req' = NoReq
    \/ \E s \in DeleteSlots :
        /\ delete_board_statement(s)
        /\ req' = NoReq
    \/ \E s \in DeleteSlots :
        /\ delete_board_commit(s)
        /\ req' = NoReq

SpecCascade == Init /\ [][NextCascade]_vars

(* C28: a delete_board on an existing board succeeds and removes it; a     *)
(* delete_board called on the id of a board that is no longer there        *)
(* returns an error and changes nothing. *)
C28_SecondDeleteIsError ==
    (last.op = "delete_board" /\ last.status = 200) =>
        /\ "called_on_board" \in DOMAIN last => last.called_on_board
        /\ 1 \notin DOMAIN boards


(* The step ends a delete_board call with the given status. *)
DeleteEnds(status) ==
    /\ \E s \in DeleteSlots : deletes[s].pc > 0 /\ deletes'[s] = NoDelete
    /\ last'.status = status

(* C29: after a delete_board that succeeds, no board row, board_perms row, *)
(* pin or tag membership refers to the board, and no favorite or history   *)
(* row to a pin that was on it; when a statement of the call fails (a pin  *)
(* or a row on a pin was added while it ran) no row is removed. *)
C29_AllOrNothing ==
    [][/\ DeleteEnds(200) =>
            /\ 1 \notin DOMAIN boards'
            /\ \A r \in board_perms' : r.board_id # 1
            /\ \A p \in DOMAIN pins' : pins'[p].board_id # 1
            /\ \A t \in tag_ids' : t.board_id # 1
            /\ \A f \in favorites' : f.pin_id \notin PinsOfBoard(1)
            /\ \A h \in pin_history' : h.pin_id \notin PinsOfBoard(1)
       /\ DeleteEnds(500) =>
            UNCHANGED <<boards, board_perms, pins, pin_history, favorites, tag_ids>>]_vars

C29_Witness ==
    /\ last.op = "delete_board"
    /\ last.status = 200
    /\ last.gone.pins # {}
    /\ last.gone.favorites # {}
    /\ last.gone.pin_history # {}
    /\ last.gone.tag_ids # {}
    /\ last.gone.board_perms # {}
    /\ last.gone.boards = {1}


----------------------------------------------------------------------------
(* Tags: alice and bob tag alice's board and read, change and delete tags  *)
(* by id, their own and each other's. *)

MaxTags == 2
TagIds == 1..MaxTags
TagBoardLists == {<< >>, <<1>>, <<2>>}

TagRequest(user, ids) == [user |-> user, ids |-> ids]

NextTags ==
    \/ /\ create_board(1, "alice", [x \in {"bob"} |-> View])
       /\ req' = TagRequest("alice", {})
    \/ \E u \in Callers, b \in TagBoardLists :
        /\ next_tag_id <= MaxTags
        /\ create_tag(u, "t", PlainColor, b)
        /\ req' = TagRequest(u, {})
    \/ \E u \in Callers, id \in TagIds :
        /\ get_tag(u, id)
        /\ req' = TagRequest(u, {id})
    \/ \E u \in Callers :
        /\ get_tags(u)
        /\ req' = TagRequest(u, {})
    \/ \E u \in Callers, id \in TagIds, name \in {None, Some("n")},
          b \in {None} \cup {Some(x) : x \in TagBoardLists} :
        /\ modify_tag(u, id, name, None, b)
        /\ req' = TagRequest(u, {id})
    \/ \E u \in Callers, id \in TagIds, a \in TagBoardLists, d \in {<< >>, <<1>>} :
        /\ tag_add_remove_boards(u, id, a, d)
        /\ req' = TagRequest(u, {id})
    \/ \E u \in Callers, ids \in {<<1>>, <<2>>, <<1, 2>>} :
        /\ delete_tags(u, ids)
        /\ req' = TagRequest(u, Range(ids))

SpecTags == Init /\ [][NextTags]_vars

(* C30: a tag operation by one user returns no tag created by another,     *)
(* and leaves every such tag and its memberships as they were. *)
C30_OthersTagsUntouched ==
    [][\A t \in DOMAIN tags :
          tags[t].creator_id # req'.user =>
              /\ t \in DOMAIN tags'
              /\ tags'[t] = tags[t]
              /\ {x \in tag_ids' : x.id = t} = {x \in tag_ids : x.id = t}
              /\ "tags" \in DOMAIN last' =>
                    \A r \in last'.tags : r.id # t /\ r.creator_id = req'.user]_vars

C30_Witness ==
    /\ last.op \in {"get_tag", "modify_tag", "tag_add_remove_boards", "delete_tags"}
    /\ \E t \in req.ids :
          /\ t \in DOMAIN tags
          /\ tags[t].creator_id # req.user
          /\ TagBoards(t) # {}

----------------------------------------------------------------------------
(* Bulk changes by an editor: alice's boards are shared with bob at Edit   *)
(* and with carol at View or Edit; bob submits bulk changes that name      *)
(* carol. *)

EditorBoardPerms ==
    {[x \in {"bob", "carol"} |-> IF x = "bob" THEN Edit ELSE View],
     [x \in {"bob", "carol"} |-> Edit],
     [x \in {"bob"} |-> Edit]}
EditorAdds == {<< >>, [x \in {"carol"} |-> View], [x \in {"carol"} |-> Owner]}
EditorDeletes == {{}, {"carol"}, {"alice"}}

EditorRequest(user, ids, perms_to_add, users_to_delete) ==
    [edit_ids |-> AllowedBoardIds(user, ids, Edit),
     named |-> DOMAIN perms_to_add \cup users_to_delete]

NextEditor ==
    \/ \E id \in BoardIds, m \in EditorBoardPerms :
        /\ create_board(id, "alice", m)
        /\ req' = EditorRequest("alice", {}, << >>, {})
    \/ \E ids \in SUBSET BoardIds \ {{}}, m \in EditorAdds, d \in EditorDeletes :
        /\ mass_change_board_share_perms("bob", ids, m, d)
        /\ req' = EditorRequest("bob", ids, m, d)

SpecEditor == Init /\ [][NextEditor]_vars

(* C31: on a board of the caller's Edit set a bulk change leaves the row   *)
(* of every user at Edit or Owner on that board as it is, sets no row to   *)
(* Owner, and changes no row of a user the request does not name. *)
C31_EditSetOnlyBelowEdit ==
    [][MassChanged =>
        \A b \in req'.edit_ids :
            /\ \A r \in board_perms :
                  (r.board_id = b /\ (r.perm_id >= Edit \/ r.user_id \notin req'.named))
                      => r \in board_perms'
            /\ \A r \in board_perms' :
                  (r.board_id = b /\ (r.perm_id = Owner \/ r.user_id \notin req'.named))
                      => r \in board_perms]_vars

----------------------------------------------------------------------------
(* modify_pin step by step.  The transaction holding the UPDATE of the     *)
(* pins row is committed before add_to_pin_history is called on the pool,  *)
(* and each await in between is a point where the request may be dropped.  *)

CreatedContent == "a"

(* handler.modify_pin up to tx.commit(): the route's check, get_pin, the   *)
(* merge and the committed UPDATE.  When content, flags or metadata        *)
(* changed the request goes on to add_to_pin_history with the original     *)
(* values. *)
modify_pin_update(user, pin_id, content, flags, color) ==
    /\ FreeSlots # {}
    /\ IF can_edit_pin(user, pin_id)
       THEN LET p == pins[pin_id]
                new == [p EXCEPT
                          !.content = clean_html(UnwrapOr(content, p.content)),
                          !.flags = UnwrapOr(flags, p.flags),
                          !.color = UnwrapOr(color, p.color),
                          !.edited = now]
            IN /\ pins' = [pins EXCEPT ![pin_id] = new]
               /\ IF p.content # new.content \/ p.flags # new.flags
                     \/ p.color # new.color
                  THEN /\ inflight' = inflight \cup
                            {Pending("add_to_pin_history", user, None,
                                     <<pin_id>>)
                             @@ [content |-> p.content, flags |-> p.flags,
                                 color |-> p.color]}
                       /\ UNCHANGED last
                  ELSE /\ last' = Response("modify_pin", user, 200)
                       /\ UNCHANGED inflight
       ELSE /\ last' = Response("modify_pin", user, 401)
            /\ UNCHANGED <<pins, inflight>>
    /\ UNCHANGED <<boardVars, playlistVars, pin_history, favorites,
                   next_history_id, now, serviceVars>>

(* The call of add_to_pin_history that ends handler.modify_pin: its        *)
(* statements run on the pool, so what they wrote stays when the INSERT    *)
(* fails. *)
modify_pin_history(r) ==
    /\ r \in inflight
    /\ r.op = "add_to_pin_history"
    /\ LET res == add_to_pin_history(PinDb, r.pin_ids[1], r.user,
                                     r.content, r.flags, r.color)
       IN /\ SetPinDb(res.db)
          /\ last' = Response("modify_pin", r.user,
                              IF res.ok THEN 200 ELSE 500)
    /\ inflight' = inflight \ {r}
    /\ UNCHANGED <<board_perms, playlistVars, now, serviceVars>>

(* The request is dropped while it waits after the commit: nothing more of *)
(* it runs and no response is sent. *)
modify_pin_dropped(r) ==
    /\ r \in inflight
    /\ r.op = "add_to_pin_history"
    /\ inflight' = inflight \ {r}
    /\ UNCHANGED <<boardVars, playlistVars, pins, pin_history, favorites,
                   next_history_id, now, serviceVars, last>>

NextAtomic ==
    \/ /\ create_board(1, "alice", [x \in {"bob"} |-> Edit])
       /\ req' = PinRequest(<< >>)
    \/ \E id \in PinIds :
        /\ create_pin("alice", id, 1, CreatedContent, {}, PlainColor)
        /\ req' = PinRequest(<<id>>)
    \/ \E u \in Callers, id \in PinIds, c \in SubmittedContents :
        /\ next_history_id <= MaxRows
        /\ modify_pin_update(u, id, c, None, None)
        /\ req' = PinRequest(<<id>>)
    \/ \E r \in inflight :
        /\ modify_pin_history(r)
        /\ req' = PinRequest(r.pin_ids)
    \/ \E r \in inflight :
        /\ modify_pin_dropped(r)
        /\ req' = PinRequest(r.pin_ids)
    \/ \E id \in PinIds :
        /\ delete_pin("alice", id)
        /\ req' = PinRequest(<<id>>)

SpecAtomic == Init /\ [][NextAtomic]_vars

(* No modify_pin request on the pin p is between its commit and its        *)
(* history step. *)
PinAtRest(p) == \A r \in inflight : r.pin_ids # <<p>>

(* C32: modify_pin is atomic: once no request on a pin is under way, a pin *)
(* whose content is no longer the one it was created with has a row in its *)
(* history, also when the history step failed or the request was dropped   *)
(* between the two writes. *)
C32_ChangeHasHistory ==
    \A p \in DOMAIN pins :
        (PinAtRest(p) /\ pins[p].content # CreatedContent)
            => HistoryOf(pin_history, p) # {}

----------------------------------------------------------------------------
(* modify_pin with a board_id. *)

SubmittedBoards == {None} \cup {Some(b) : b \in BoardIds}

MoveRequest(pin_id, board_id) == [pin_ids |-> {pin_id}, board_id |-> board_id]

NextMove ==
    \/ \E id \in BoardIds :
        /\ create_board(id, "alice", [x \in {"bob"} |-> Edit])
        /\ req' = MoveRequest(0, None)
    \/ \E id \in PinIds, b \in BoardIds :
        /\ create_pin("alice", id, b, "a", {}, PlainColor)
        /\ req' = MoveRequest(id, Some(b))
    \/ \E u \in Callers, id \in PinIds, b \in SubmittedBoards,
          c \in SubmittedContents :
        /\ next_history_id <= MaxRows
        /\ modify_pin(u, id, b, c, None, None)
        /\ req' = MoveRequest(id, b)

SpecMove == Init /\ [][NextMove]_vars

(* C33: a modify_pin call that succeeds with a board_id leaves the pin     *)
(* stored under the submitted board. *)
C33_PinMoves ==
    [][(last'.op = "modify_pin" /\ last'.status = 200 /\ req'.board_id # None)
        => \A p \in req'.pin_ids :
              pins'[p].board_id = UnwrapOr(req'.board_id, 0)]_vars

----------------------------------------------------------------------------
(* Tag memberships. *)

MemberLists == {<< >>, <<1>>, <<2>>, <<1, 2>>}

MemberRequest(user, id, to_add, to_delete) ==
    [user |-> user, id |-> id, to_add |-> Range(to_add),
     to_delete |-> Range(to_delete)]

NextMembers ==
    \/ \E b \in BoardIds :
        /\ create_board(b, "alice", [x \in {"bob"} |-> View])
        /\ req' = MemberRequest("alice", 0, << >>, << >>)
    \/ \E u \in Callers, b \in MemberLists :
        /\ next_tag_id <= MaxTags
        /\ create_tag(u, "t", PlainColor, b)
        /\ req' = MemberRequest(u, 0, << >>, << >>)
    \/ \E u \in Callers, id \in TagIds, a \in MemberLists, d \in MemberLists :
        /\ tag_add_remove_boards(u, id, a, d)
        /\ req' = MemberRequest(u, id, a, d)

SpecMembers == Init /\ [][NextMembers]_vars

MembersOf(rows, id) == {x.board_id : x \in {y \in rows : y.id = id}}

(* C34: tag_add_remove_boards by the creator of the tag, with ids of       *)
(* boards that exist, succeeds, and the tag's boards are then the ones it  *)
(* had, less those to delete, plus those to add; the memberships of the    *)
(* other tags stay as they were. *)
C34_MembershipsUpdated ==
    [][(/\ last'.op = "tag_add_remove_boards"
        /\ req'.id \in DOMAIN tags
        /\ tags[req'.id].creator_id = req'.user
        /\ req'.to_add \cup req'.to_delete \subseteq DOMAIN boards)
        => /\ last'.status = 200
           /\ MembersOf(tag_ids', req'.id) =
                (MembersOf(tag_ids, req'.id) \ req'.to_delete) \cup req'.to_add
           /\ \A t \in DOMAIN tags \ {req'.id} :
                 MembersOf(tag_ids', t) = MembersOf(tag_ids, t)]_vars

----------------------------------------------------------------------------
(* C35: a login that is neither for the public account nor rate limited    *)
(* is answered 200 or 401 and adds exactly one row to login_attempts: the  *)
(* lowercased user name, the address, the outcome and the time, whether    *)
(* the user exists or not. *)
C35_EveryAttemptRecorded ==
    [][(last'.op = "login" /\ req'.username # Public /\ last'.status # 429)
        => /\ last'.status \in {200, 401}
           /\ login_attempts' =
                InsertAttempt(PruneAttempts(login_attempts),
                              ToLower(req'.username), req'.ip,
                              last'.status = 200)]_vars

----------------------------------------------------------------------------
(* Favorites. *)

(* POST /v1/board/pins/favorites/check: SELECT pin_id FROM board.favorites *)
(* WHERE user_id = $1 and pin_id = ANY($2) *)
check_favorites(user, pin_ids) ==
    /\ last' = [op |-> "check_favorites", user |-> user, status |-> 200,
                pins |-> {p \in Range(Truncate(pin_ids)) :
                            [user_id |-> user, pin_id |-> p] \in favorites}]
    /\ UNCHANGED <<boardVars, playlistVars, pinVars, now, serviceVars>>

FavoriteUsers == {"alice", "bob", "carol"}

NextFavorites ==
    \/ \E b \in BoardIds, m \in GuestPerms :
        /\ create_board(b, "alice", m)
        /\ req' = PinRequest(<< >>)
    \/ \E id \in PinIds, b \in BoardIds :
        /\ create_pin("alice", id, b, "a", {}, PlainColor)
        /\ req' = PinRequest(<<id>>)
    \/ \E u \in FavoriteUsers, ids \in PinIdSets :
        /\ add_favorites(u, ids)
        /\ req' = PinRequest(ids)
    \/ \E u \in FavoriteUsers, ids \in PinIdSets :
        /\ check_favorites(u, ids)
        /\ req' = PinRequest(ids)

SpecFavorites == Init /\ [][NextFavorites]_vars

(* The user u holds Interact or more on the board of the pin p. *)
MayFavorite(u, p) ==
    p \in DOMAIN pins /\ LevelIn(board_perms, pins[p].board_id, u) >= Interact

(* C36: add_favorites adds a favorite only for a pin on a board where the  *)
(* user holds Interact or more, and check_favorites reports no other pin.  *)
C36_FavoritesNeedInteract ==
    [][/\ last'.op = "add_favorites" =>
            \A f \in favorites' \ favorites : MayFavorite(f.user_id, f.pin_id)
       /\ last'.op = "check_favorites" =>
            \A p \in last'.pins : MayFavorite(last'.user, p)]_vars

----------------------------------------------------------------------------
(* Songs for a playlist: alice owns the playlists and shares them with     *)
(* bob; alice, bob and carol post urls for them. *)

MaxAdmitQueue == 4
AdmitPerms == {[x \in {"bob"} |-> l] : l \in {View, Interact, SelfEdit, Edit}}
AdmitCallers == {"alice", "bob", "carol"}

AdmitRequest(user, playlist_id) == [user |-> user, playlist_id |-> playlist_id]

NextAdmit ==
    \/ \E id \in PlaylistIds :
        /\ create_playlist(id, "alice")
        /\ req' = AdmitRequest("alice", id)
    \/ \E id \in PlaylistIds, m \in AdmitPerms :
        /\ edit_playlist_perms("alice", id, m)
        /\ req' = AdmitRequest("alice", id)
    \/ \E u \in AdmitCallers, id \in PlaylistIds, n \in 1..2 :
        /\ Len(queue) < MaxAdmitQueue
        /\ add_songs_by_url(u, id, n)
        /\ req' = AdmitRequest(u, id)

SpecAdmit == Init /\ [][NextAdmit]_vars

(* C37: add_songs_by_url writes a job row only when the caller holds       *)
(* SelfEdit, Edit or Owner on the playlist; otherwise it is refused. *)
C37_JobsNeedEditLevel ==
    [][last'.op = "add_songs_by_url" =>
        IF PlaylistLevelIn(playlist_perms, req'.playlist_id, req'.user)
              \in {SelfEdit, Edit, Owner}
        THEN TRUE
        ELSE queue' = queue /\ last'.status # 200]_vars

(* The queued song jobs of the user u, of either name. *)
QueuedSongJobs(rows, u) ==
    Cardinality({i \in 1..Len(rows) :
                    /\ rows[i].requestor = u
                    /\ rows[i].status = "queued"
                    /\ rows[i].name \in {"music_download",
                                         "music_add_urls_to_playlist"}})

(* C38: a request that add_songs_by_url accepts raises the count that      *)
(* can_add_songs reads for its user, and while no worker takes jobs away   *)
(* the user's queued song jobs stay at or below max_songs_in_queue. *)
C38_AcceptedJobsAreCounted ==
    [][(last'.op = "add_songs_by_url" /\ last'.status = 200)
        => /\ QueuedDownloads(queue', req'.user) > QueuedDownloads(queue, req'.user)
           /\ QueuedSongJobs(queue', req'.user) <= MaxSongsInQueue]_vars

----------------------------------------------------------------------------
(* Deleting a playlist. *)

is_user_owner_playlist(user_id, id) == get_user_perm(user_id, id) = Owner

(* DELETE /v1/music/playlist.  The handler deletes the user_playlists rows *)
(* and then the playlists row, each statement on the pool;                 *)
(* playlist_perms.id REFERENCES music.playlists(id), and no statement      *)
(* deletes from playlist_perms. *)
delete_playlist(user_id, id) ==
    /\ IF ~is_user_owner_playlist(user_id, id)
       THEN /\ last' = Response("delete_playlist", user_id, 401)
            /\ UNCHANGED playlistVars
       ELSE /\ user_playlists' = {r \in user_playlists : r.id # id}
            /\ UNCHANGED playlist_perms
            /\ IF \E r \in playlist_perms : r.id = id
               THEN /\ UNCHANGED playlists
                    /\ last' = Response("delete_playlist", user_id, 500)
               ELSE /\ playlists' = [x \in DOMAIN playlists \ {id} |-> playlists[x]]
                    /\ last' = Response("delete_playlist", user_id, 200)
    /\ UNCHANGED <<boardVars, pinVars, now, serviceVars>>

MaxRemovePlaylists == 3
RemoveIds == 1..MaxRemovePlaylists
RemovePerms == {[x \in {"bob"} |-> l] : l \in {View, Edit, Owner}}

RemoveRequest(user, id) == [user |-> user, id |-> id]

NextRemove ==
    \/ \E u \in Callers, id \in RemoveIds :
        /\ create_playlist(id, u)
        /\ req' = RemoveRequest(u, id)
    \/ \E id \in RemoveIds, m \in RemovePerms :
        /\ edit_playlist_perms("alice", id, m)
        /\ req' = RemoveRequest("alice", id)
    \/ \E u \in Callers, id \in RemoveIds :
        /\ delete_playlist(u, id)
        /\ req' = RemoveRequest(u, id)

SpecRemove == Init /\ [][NextRemove]_vars

(* C39: delete_playlist by an Owner of the playlist succeeds and removes   *)
(* the playlist, its playlist_perms rows and its user_playlists rows; a    *)
(* delete that fails removes none of them. *)
C39_OwnerDeletesPlaylist ==
    [][last'.op = "delete_playlist" =>
        /\ PlaylistLevelIn(playlist_perms, req'.id, req'.user) = Owner =>
              /\ last'.status = 200
              /\ req'.id \notin DOMAIN playlists'
              /\ \A r \in playlist_perms' \cup user_playlists' : r.id # req'.id
        /\ last'.status # 200 => UNCHANGED playlistVars]_vars

----------------------------------------------------------------------------
(* update_board, its check apart from modify_board.  The route reads the   *)
(* board and tests the caller's level; modify_board then reads the board   *)
(* again with get_board(..).unwrap() and writes.  Other requests may       *)
(* commit between the three. *)

(* A panic of the handler: the worker unwinds and no response is written. *)
Panic(op, user) == [op |-> op, user |-> user, status |-> 0, panicked |-> TRUE]

(* PUT /v1/board/boards up to the call of handler.modify_board *)
update_board_route(s, user_id, b, name, desc, color, perms) ==
    /\ edits[s] = NoEdit
    /\ IF b \notin DOMAIN boards
       THEN /\ last' = Response("modify_board", user_id, 403)
            /\ UNCHANGED edits
       ELSE IF get_perms_for_board(user_id, b) \in {Owner, Edit}
       THEN /\ edits' = [edits EXCEPT ![s] =
                    [pc |-> "checked", user_id |-> user_id, board_id |-> b,
                     name |-> name, desc |-> desc, color |-> color,
                     perms |-> perms]]
            /\ UNCHANGED last
       ELSE /\ last' = Response("modify_board", user_id, 401)
            /\ UNCHANGED edits
    /\ UNCHANGED <<boardVars, playlistVars, pinVars, now, fileVars, login_attempts,
                   queue, site_queue, handlers, accountVars, tagVars,
                   cascadeVars>>

(* handler.modify_board, its get_board(&board_id).await.unwrap() *)
modify_board_get(s) ==
    LET e == edits[s]
    IN /\ e.pc = "checked"
       /\ IF e.board_id \notin DOMAIN boards
          THEN /\ edits' = [edits EXCEPT ![s] = NoEdit]
               /\ last' = Panic("modify_board", e.user_id)
          ELSE /\ edits' = [edits EXCEPT ![s] =
                    [pc |-> "read", user_id |-> e.user_id,
                     board_id |-> e.board_id, name |-> e.name, desc |-> e.desc,
                     color |-> e.color, perms |-> e.perms,
                     b |-> [boards[e.board_id] EXCEPT !.edited = now],
                     b_perms |-> BoardPerms(e.board_id)]]
               /\ UNCHANGED last
       /\ UNCHANGED <<boardVars, playlistVars, pinVars, now, fileVars,
                      login_attempts, queue, site_queue, handlers, accountVars,
                      tagVars, cascadeVars>>

(* handler.modify_board from pool.begin() on.  b.perms.get(&user_id)       *)
(* .unwrap() panics when the board read has no row of the caller, and the  *)
(* open transaction is rolled back; so does the last get_board(..)         *)
(* .unwrap() when the board is gone and no statement failed before it. *)
modify_board_apply(s) ==
    LET e == edits[s]
        rewrites == e.perms # NoPerms /\ e.perms # SomePerms(e.b_perms)
    IN /\ e.pc = "read"
       /\ IF \/ rewrites /\ e.user_id \notin DOMAIN e.b_perms
             \/ ~rewrites /\ e.board_id \notin DOMAIN boards
          THEN /\ edits' = [edits EXCEPT ![s] = NoEdit]
               /\ last' = Panic("modify_board", e.user_id)
               /\ UNCHANGED <<boardVars, playlistVars, pinVars, now, fileVars,
                              login_attempts, queue, site_queue, handlers,
                              accountVars, tagVars, cascadeVars>>
          ELSE modify_board_write(s)

RecheckForms ==
    {[name |-> Some("n1"), perms |-> NoPerms],
     [name |-> None, perms |-> SomePerms([x \in {"carol"} |-> Owner])]}
LoweredPerms == {<< >>, [x \in {"bob"} |-> View], [x \in {"bob"} |-> Edit]}

RecheckRequest(step, user, b) == [step |-> step, user |-> user, board_id |-> b]

NextRecheck ==
    \/ \E b \in BoardIds :
        /\ create_board(b, "alice", [x \in {"bob"} |-> Edit])
        /\ req' = RecheckRequest("create_board", "alice", b)
    \/ \E s \in EditSlots, b \in BoardIds, f \in RecheckForms :
        /\ update_board_route(s, "bob", b, f.name, None, None, f.perms)
        /\ req' = RecheckRequest("route", "bob", b)
    \/ \E s \in EditSlots :
        /\ modify_board_get(s)
        /\ req' = RecheckRequest("get", edits[s].user_id, edits[s].board_id)
    \/ \E s \in EditSlots :
        /\ modify_board_apply(s)
        /\ req' = RecheckRequest("apply", edits[s].user_id, edits[s].board_id)
    \/ \E b \in BoardIds, m \in LoweredPerms :
        /\ modify_board("alice", b, SomePerms(m))
        /\ req' = RecheckRequest("modify_board", "alice", b)
    \/ \E b \in BoardIds :
        /\ delete_board("alice", b)
        /\ req' = RecheckRequest("delete_board", "alice", b)

SpecRecheck == Init /\ [][NextRecheck]_vars

(* C40: a board modification is applied only if its caller holds Edit or   *)
(* Owner on the board when the write is applied, and a request whose       *)
(* caller lost the level, or whose board was deleted, after the route's    *)
(* check ends with an error response, not with a panic of the handler. *)
C40_AppliedOnlyWithPermission ==
    [][req'.step \in {"get", "apply"} =>
        /\ "panicked" \notin DOMAIN last'
        /\ (boards' # boards \/ board_perms' # board_perms) =>
              LevelIn(board_perms, req'.board_id, req'.user) \in {Edit, Owner}
        /\ (req'.step = "apply"
              /\ LevelIn(board_perms, req'.board_id, req'.user) \notin {Edit, Owner})
            => last'.status \notin {0, 200}]_vars

====
